---------------------------- MODULE Spec2Model ----------------------------
(***************************************************************************)
(* A model of the control-plane relay of src/server.js (two programs in    *)
(* one file: the telnet admin console, lines 1-388, and the SSH admin      *)
(* console, lines 390-935) and of src/unnamed/part_000 (the telnet admin   *)
(* console with attack-parameter collection).                              *)
(*                                                                         *)
(* Text is modelled at the level of characters: a JavaScript string is a   *)
(* sequence of one-character strings.  The control bytes 3, 8 and 127 are  *)
(* written "^C", "BS" and "DEL"; the apostrophe and the grave accent, which *)
(* no input of the model uses, are written "APOS" and "GRAVE".             *)
(***************************************************************************)
EXTENDS Integers, Sequences, FiniteSets, TLC

(***************************************************************************)
(* Bounds of the model.                                                    *)
(***************************************************************************)
MaxBotId == 3
MaxWs == 2
MaxAdmins == 1
MaxShells == 2
MaxPending == 3
MaxFailed == 1
MaxTyped == 1
MaxConsoleWs == 1

(***************************************************************************)
(* JavaScript string primitives.                                           *)
(***************************************************************************)
Printable ==
  <<" ", "!", "\"", "#", "$", "%", "&", "APOS", "(", ")", "*", "+", ",", "-", ".", "/",
    "0", "1", "2", "3", "4", "5", "6", "7", "8", "9", ":", ";", "<", "=", ">", "?",
    "@", "A", "B", "C", "D", "E", "F", "G", "H", "I", "J", "K", "L", "M", "N", "O",
    "P", "Q", "R", "S", "T", "U", "V", "W", "X", "Y", "Z", "[", "\\", "]", "^", "_",
    "GRAVE", "a", "b", "c", "d", "e", "f", "g", "h", "i", "j", "k", "l", "m", "n", "o",
    "p", "q", "r", "s", "t", "u", "v", "w", "x", "y", "z", "{", "|", "}", "~">>

Controls == {"^C", "BS", "\t", "\n", "\r", "ESC", "DEL"}

\* The code unit of every character of the model
CodeTable ==
  [ch \in {Printable[i] : i \in 1..Len(Printable)} \cup Controls |->
     IF ch \in Controls
     THEN CASE ch = "^C" -> 3
            [] ch = "BS" -> 8
            [] ch = "\t" -> 9
            [] ch = "\n" -> 10
            [] ch = "\r" -> 13
            [] ch = "ESC" -> 27
            [] ch = "DEL" -> 127
     ELSE 31 + (CHOOSE i \in 1..Len(Printable) : Printable[i] = ch)]

\* String.prototype.charCodeAt for one character
CharCode(ch) == CodeTable[ch]

LowerTable ==
  [ch \in DOMAIN CodeTable |->
     IF CodeTable[ch] >= 65 /\ CodeTable[ch] <= 90 THEN Printable[CodeTable[ch] + 32 - 31]
     ELSE ch]

\* String.prototype.toLowerCase
LowerChar(ch) == LowerTable[ch]

ToLower(s) == [i \in 1..Len(s) |-> LowerChar(s[i])]

IsSpace(ch) == ch \in {" ", "\t", "\n", "\r"}

RECURSIVE TrimLeft(_)
TrimLeft(s) ==
  IF s # <<>> /\ IsSpace(Head(s)) THEN TrimLeft(Tail(s)) ELSE s

RECURSIVE TrimRight(_)
TrimRight(s) ==
  IF s # <<>> /\ IsSpace(s[Len(s)]) THEN TrimRight(SubSeq(s, 1, Len(s) - 1)) ELSE s

\* String.prototype.trim
Trim(s) == TrimRight(TrimLeft(s))

\* String.prototype.indexOf for one character: 0-based, -1 when absent
IndexOf(s, ch) ==
  IF \E i \in 1..Len(s) : s[i] = ch
  THEN (CHOOSE i \in 1..Len(s) : s[i] = ch /\ \A j \in 1..(i - 1) : s[j] # ch) - 1
  ELSE -1

\* String.prototype.substring(from) and substring(from, to), 0-based
SubstringFrom(s, from) == SubSeq(s, from + 1, Len(s))
Substring(s, from, to) == SubSeq(s, from + 1, to)

\* String.prototype.startsWith
StartsWith(s, p) == Len(s) >= Len(p) /\ SubSeq(s, 1, Len(p)) = p

\* s.replace(/\r$/, "")
StripCR(s) ==
  IF s # <<>> /\ s[Len(s)] = "\r" THEN SubSeq(s, 1, Len(s) - 1) ELSE s

\* s.split(/\s+/): the pieces between maximal runs of white space
RECURSIVE SplitWs(_, _, _)
SplitWs(s, cur, inGap) ==
  IF s = <<>> THEN <<cur>>
  ELSE IF IsSpace(Head(s))
       THEN IF inGap THEN SplitWs(Tail(s), cur, TRUE)
            ELSE <<cur>> \o SplitWs(Tail(s), <<>>, TRUE)
       ELSE SplitWs(Tail(s), Append(cur, Head(s)), FALSE)

Split(s) == SplitWs(s, <<>>, FALSE)

\* Array.prototype.join with a single space
RECURSIVE Join(_)
Join(parts) ==
  IF parts = <<>> THEN <<>>
  ELSE IF Len(parts) = 1 THEN parts[1]
       ELSE parts[1] \o <<" ">> \o Join(Tail(parts))

\* Number to decimal text, as a template literal formats it
RECURSIVE Decimal(_)
Decimal(n) ==
  IF n < 10 THEN <<Printable[n + 17]>>
  ELSE Decimal(n \div 10) \o <<Printable[(n % 10) + 17]>>


(***************************************************************************)
(* ConnectionManager.                                                      *)
(*                                                                         *)
(* A manager is a record [adminConnections, botConnections, botIdCounter]. *)
(* adminConnections is a JavaScript Set and botConnections a JavaScript    *)
(* Map: both iterate in insertion order, so they are sequences without     *)
(* repeated members (keys).  A Map entry is [key, val].                    *)
(*                                                                         *)
(* The transports are not part of the manager.  socks[s] is the state of   *)
(* an admin transport ([destroyed, writeThrows, ...]) and wss[w] that of a *)
(* worker transport ([readyState, sendThrows, ...]).  An operation returns *)
(* a record [m, out, ret]: the manager after it, the transport calls it    *)
(* made in order, and its return value.                                    *)
(***************************************************************************)
S_bot_ == <<"b", "o", "t", "_">>

\* `bot_${this.botIdCounter}`
BotIdOf(n) == S_bot_ \o Decimal(n)

NewManager == [adminConnections |-> <<>>, botConnections |-> <<>>, botIdCounter |-> 0]

\* Set.prototype.has / add / delete
SetHas(set, x) == \E i \in 1..Len(set) : set[i] = x
SetAdd(set, x) == IF SetHas(set, x) THEN set ELSE Append(set, x)
SetDelete(set, x) == SelectSeq(set, LAMBDA y : y # x)

\* Map.prototype.has / get / set / delete / keys
MapHas(map, k) == \E i \in 1..Len(map) : map[i].key = k
MapGet(map, k) == map[CHOOSE i \in 1..Len(map) : map[i].key = k].val
\* Mutant: a new key goes to the front of the map
MapSet_front(map, k, v) ==
  IF MapHas(map, k)
  THEN [i \in 1..Len(map) |-> IF map[i].key = k THEN [key |-> k, val |-> v] ELSE map[i]]
  ELSE <<[key |-> k, val |-> v]>> \o map

MapSet(map, k, v) ==
  IF MapHas(map, k)
  THEN [i \in 1..Len(map) |-> IF map[i].key = k THEN [key |-> k, val |-> v] ELSE map[i]]
  ELSE Append(map, [key |-> k, val |-> v])
MapDelete(map, k) == SelectSeq(map, LAMBDA e : e.key # k)
MapKeys(map) == [i \in 1..Len(map) |-> map[i].key]

\* A call made on a transport: socket.write, websocket.send (threw: the call raised)
WriteCall(s, data, threw) == [call |-> "write", to |-> s, data |-> data, threw |-> threw]
SendCall(w, data, threw) == [call |-> "send", to |-> w, data |-> data, threw |-> threw]

\* Mutant: the socket is appended whether or not the set holds it
addAdmin_append(m, socket) ==
  [m |-> [m EXCEPT !.adminConnections = Append(@, socket)], out |-> <<>>, ret |-> "undefined"]

addAdmin(m, socket) ==
  [m |-> [m EXCEPT !.adminConnections = SetAdd(@, socket)], out |-> <<>>, ret |-> "undefined"]

removeAdmin(m, socket) ==
  [m |-> [m EXCEPT !.adminConnections = SetDelete(@, socket)], out |-> <<>>, ret |-> "undefined"]

\* Mutant: the id is taken from the size of the map, so a freed number is reused
addBot_idFromSize(m, websocket) ==
  LET n == Len(m.botConnections) + 1
      botId == BotIdOf(n)
  IN  [m |-> [m EXCEPT !.botIdCounter = n,
                       !.botConnections = MapSet(@, botId, websocket)],
       out |-> <<>>, ret |-> botId]

addBot(m, websocket) ==
  LET n == m.botIdCounter + 1
      botId == BotIdOf(n)
  IN  [m |-> [m EXCEPT !.botIdCounter = n,
                       !.botConnections = MapSet(@, botId, websocket)],
       out |-> <<>>, ret |-> botId]

removeBot(m, botId) ==
  [m |-> IF MapHas(m.botConnections, botId)
         THEN [m EXCEPT !.botConnections = MapDelete(@, botId)]
         ELSE m,
   out |-> <<>>, ret |-> "undefined"]

\* disconnected.forEach(x => remove(x)) for removeAdmin and removeBot
RECURSIVE RemoveAdmins(_, _)
RemoveAdmins(m, disconnected) ==
  IF disconnected = <<>> THEN m
  ELSE RemoveAdmins(removeAdmin(m, Head(disconnected)).m, Tail(disconnected))

RECURSIVE RemoveBots(_, _)
RemoveBots(m, disconnected) ==
  IF disconnected = <<>> THEN m
  ELSE RemoveBots(removeBot(m, Head(disconnected)).m, Tail(disconnected))

\* Mutant: the pass ends at the first admin that is destroyed or whose write raises
RECURSIVE AdminLoop_stopAtFailure(_, _, _, _)
AdminLoop_stopAtFailure(set, socks, data, i) ==
  IF i > Len(set) THEN [out |-> <<>>, disconnected |-> <<>>]
  ELSE LET socket == set[i]
           rest == AdminLoop_stopAtFailure(set, socks, data, i + 1)
       IN  IF ~socks[socket].destroyed
           THEN IF socks[socket].writeThrows
                THEN [out |-> <<WriteCall(socket, data, TRUE)>>, disconnected |-> <<socket>>]
                ELSE [out |-> <<WriteCall(socket, data, FALSE)>> \o rest.out,
                      disconnected |-> rest.disconnected]
           ELSE [out |-> <<>>, disconnected |-> <<socket>>]

\* The for-of loop of broadcastToAdmins from position i on: [out, disconnected]
RECURSIVE AdminLoop(_, _, _, _)
AdminLoop(set, socks, data, i) ==
  IF i > Len(set) THEN [out |-> <<>>, disconnected |-> <<>>]
  ELSE LET socket == set[i]
           rest == AdminLoop(set, socks, data, i + 1)
       IN  IF ~socks[socket].destroyed
           THEN IF socks[socket].writeThrows
                THEN [out |-> <<WriteCall(socket, data, TRUE)>> \o rest.out,
                      disconnected |-> <<socket>> \o rest.disconnected]
                ELSE [out |-> <<WriteCall(socket, data, FALSE)>> \o rest.out,
                      disconnected |-> rest.disconnected]
           ELSE [out |-> rest.out, disconnected |-> <<socket>> \o rest.disconnected]

broadcastToAdmins(m, socks, message) ==
  IF Len(m.adminConnections) = 0 THEN [m |-> m, out |-> <<>>, ret |-> "undefined"]
  ELSE LET loop == AdminLoop(m.adminConnections, socks, message, 1)
       IN  [m |-> RemoveAdmins(m, loop.disconnected), out |-> loop.out, ret |-> "undefined"]

\* Mutant: a send that raises ends the pass
RECURSIVE BotLoop_stopAtThrow(_, _, _, _)
BotLoop_stopAtThrow(map, wss, data, i) ==
  IF i > Len(map) THEN [out |-> <<>>, disconnected |-> <<>>]
  ELSE LET botId == map[i].key
           websocket == map[i].val
           rest == BotLoop_stopAtThrow(map, wss, data, i + 1)
       IN  IF wss[websocket].readyState = 1
           THEN IF wss[websocket].sendThrows
                THEN [out |-> <<SendCall(websocket, data, TRUE)>>, disconnected |-> <<botId>>]
                ELSE [out |-> <<SendCall(websocket, data, FALSE)>> \o rest.out,
                      disconnected |-> rest.disconnected]
           ELSE [out |-> rest.out, disconnected |-> <<botId>> \o rest.disconnected]

\* The for-of loop of broadcastToBots from position i on: [out, disconnected]
RECURSIVE BotLoop(_, _, _, _)
BotLoop(map, wss, data, i) ==
  IF i > Len(map) THEN [out |-> <<>>, disconnected |-> <<>>]
  ELSE LET botId == map[i].key
           websocket == map[i].val
           rest == BotLoop(map, wss, data, i + 1)
       IN  IF wss[websocket].readyState = 1
           THEN IF wss[websocket].sendThrows
                THEN [out |-> <<SendCall(websocket, data, TRUE)>> \o rest.out,
                      disconnected |-> <<botId>> \o rest.disconnected]
                ELSE [out |-> <<SendCall(websocket, data, FALSE)>> \o rest.out,
                      disconnected |-> rest.disconnected]
           ELSE [out |-> rest.out, disconnected |-> <<botId>> \o rest.disconnected]

\* Mutant: a worker whose send raised is not collected for removal
RECURSIVE BotLoop_keepThrowing(_, _, _, _)
BotLoop_keepThrowing(map, wss, data, i) ==
  IF i > Len(map) THEN [out |-> <<>>, disconnected |-> <<>>]
  ELSE LET botId == map[i].key
           websocket == map[i].val
           rest == BotLoop_keepThrowing(map, wss, data, i + 1)
       IN  IF wss[websocket].readyState = 1
           THEN [out |-> <<SendCall(websocket, data, wss[websocket].sendThrows)>> \o rest.out,
                 disconnected |-> rest.disconnected]
           ELSE [out |-> rest.out, disconnected |-> <<botId>> \o rest.disconnected]

broadcastToBots_keepThrowing(m, wss, message) ==
  IF Len(m.botConnections) = 0 THEN [m |-> m, out |-> <<>>, ret |-> "undefined"]
  ELSE LET loop == BotLoop_keepThrowing(m.botConnections, wss, message, 1)
       IN  [m |-> RemoveBots(m, loop.disconnected), out |-> loop.out, ret |-> "undefined"]

broadcastToBots(m, wss, message) ==
  IF Len(m.botConnections) = 0 THEN [m |-> m, out |-> <<>>, ret |-> "undefined"]
  ELSE LET loop == BotLoop(m.botConnections, wss, message, 1)
       IN  [m |-> RemoveBots(m, loop.disconnected), out |-> loop.out, ret |-> "undefined"]

\* Mutant: a transport that is not open is not pruned
sendToBot_noPrune(m, wss, botId, message) ==
  IF ~MapHas(m.botConnections, botId) THEN [m |-> m, out |-> <<>>, ret |-> FALSE]
  ELSE LET websocket == MapGet(m.botConnections, botId)
       IN  IF wss[websocket].readyState = 1
           THEN IF wss[websocket].sendThrows
                THEN [m |-> removeBot(m, botId).m,
                      out |-> <<SendCall(websocket, message, TRUE)>>, ret |-> FALSE]
                ELSE [m |-> m, out |-> <<SendCall(websocket, message, FALSE)>>, ret |-> TRUE]
           ELSE [m |-> m, out |-> <<>>, ret |-> FALSE]

sendToBot(m, wss, botId, message) ==
  IF ~MapHas(m.botConnections, botId) THEN [m |-> m, out |-> <<>>, ret |-> FALSE]
  ELSE LET websocket == MapGet(m.botConnections, botId)
       IN  IF wss[websocket].readyState = 1
           THEN IF wss[websocket].sendThrows
                THEN [m |-> removeBot(m, botId).m,
                      out |-> <<SendCall(websocket, message, TRUE)>>, ret |-> FALSE]
                ELSE [m |-> m, out |-> <<SendCall(websocket, message, FALSE)>>, ret |-> TRUE]
           ELSE [m |-> removeBot(m, botId).m, out |-> <<>>, ret |-> FALSE]

\* Mutant: the workers reported are the ids issued so far
getStats_countsIssued(m) ==
  [admins |-> Len(m.adminConnections),
   bots |-> m.botIdCounter,
   bot_ids |-> MapKeys(m.botConnections)]

getStats(m) ==
  [admins |-> Len(m.adminConnections),
   bots |-> Len(m.botConnections),
   bot_ids |-> MapKeys(m.botConnections)]


(***************************************************************************)
(* State.                                                                  *)
(*                                                                         *)
(* variant   which program runs: "registry" (the exported ConnectionManager*)
(*           called directly), "telnet" (src/server.js 1-388),             *)
(*           "telnetAttack" (src/unnamed/part_000) or "ssh"                *)
(*           (src/server.js 390-935)                                       *)
(* manager   the global ConnectionManager                                  *)
(* socks     the admin transports: socks[s].destroyed, .writeThrows, ...   *)
(*           s = <<c, k>> is the socket of telnet connection c (k = 1) or  *)
(*           the k-th shell stream of SSH client c                         *)
(* wss       the worker transports: wss[w].readyState, .sendThrows         *)
(* admin     admin[c]: the variables of one call of handleAdminConnection  *)
(* bot       bot[w]: the variables of one call of handleBotConnection      *)
(* crashed   an exception has left an event handler: the process is gone   *)
(* returned  history: the ids addBot has returned, in order                *)
(* ev        history: the event handled last, [op, arg, pre, out, ret,     *)
(*           steps] with pre the manager before it, out the transport      *)
(*           calls it made, ret its return value and steps one record per  *)
(*           completed line of an admin data event                         *)
(***************************************************************************)
VARIABLES variant, manager, socks, wss, admin, bot, crashed, returned, ev

vars == <<variant, manager, socks, wss, admin, bot, crashed, returned, ev>>

WsIds == 1..MaxWs
\* The workers that connect while the admin consoles are explored
ConsoleWs == 1..MaxConsoleWs
AdminIds == 1..MaxAdmins
ShellIds == 1..MaxShells
SockIds == AdminIds \X ShellIds

\* The states a worker transport is observed in: open, open with a send that
\* raises, and closed (readyState 3; send is not called on it)
WsStates == {[readyState |-> 1, sendThrows |-> FALSE],
             [readyState |-> 1, sendThrows |-> TRUE],
             [readyState |-> 3, sendThrows |-> FALSE]}

\* st: "none" (not accepted yet), "open", "closed" (its close event was handled);
\* ended: socket.end() was called; destroyed: socket.destroyed
NewSock == [st |-> "none", destroyed |-> FALSE, writeThrows |-> FALSE, ended |-> FALSE]
NewWs == [readyState |-> 1, sendThrows |-> FALSE]

\* let isAuthenticated = false, passwordBuffer = '', attackMode = false,
\* attackParams = {}, currentParam = '', buffer = '' (one per shell), stream = null.
\* phase, shells and timers are the connection's place in its life: phase is
\* "none", "open" (telnet), "auth", "accepted", "ready" (SSH) or "closed";
\* shells counts the shell streams accepted; timers holds the pending setTimeout
\* callbacks.  failed, entered and stale are history (see the properties).
NewAdmin ==
  [phase |-> "none", isAuthenticated |-> FALSE, passwordBuffer |-> <<>>,
   buffer |-> [k \in ShellIds |-> <<>>],
   attackMode |-> FALSE, attackParams |-> <<>>, currentParam |-> "",
   stream |-> 0, shells |-> 0, timers |-> 0,
   failed |-> 0, entered |-> <<>>, stale |-> {}]

\* let botId = null; st is "none", "live" (handlers registered), "dead" (the
\* welcome raised: no handler registered) or "closed" (close event handled)
NewBot == [st |-> "none", botId |-> <<>>]

Event(op, arg, pre, r) ==
  [op |-> op, arg |-> arg, pre |-> pre, out |-> r.out, ret |-> r.ret, steps |-> <<>>]

S_hi == <<"h", "i">>
ApiEnvelope == [type |-> "broadcast", message |-> S_hi, params |-> <<>>, bot_id |-> <<>>]

\* Text written to an admin: a literal or template t with its holes
\* (n, n2 numbers, s text, ids a list of ids, p a parameter name)
T(t) == [t |-> t, n |-> 0, n2 |-> 0, s |-> <<>>, ids |-> <<>>, p |-> ""]

(***************************************************************************)
(* The exported ConnectionManager called directly (module.exports).        *)
(***************************************************************************)
InitRegistry ==
  /\ variant = "registry"
  /\ manager = NewManager
  /\ socks = [s \in SockIds |-> NewSock]
  /\ wss = [w \in WsIds |-> NewWs]
  /\ admin = [c \in AdminIds |-> NewAdmin]
  /\ bot = [w \in WsIds |-> NewBot]
  /\ crashed = FALSE
  /\ returned = <<>>
  /\ ev = [op |-> "init"]

ApiAddAdmin(s) ==
  LET r == addAdmin(manager, s)
  IN  /\ manager' = r.m
      /\ ev' = Event("addAdmin", s, manager, r)
      /\ UNCHANGED <<variant, socks, wss, admin, bot, crashed, returned>>

ApiRemoveAdmin(s) ==
  LET r == removeAdmin(manager, s)
  IN  /\ manager' = r.m
      /\ ev' = Event("removeAdmin", s, manager, r)
      /\ UNCHANGED <<variant, socks, wss, admin, bot, crashed, returned>>

ApiAddBot(w) ==
  LET r == addBot(manager, w)
  IN  /\ manager.botIdCounter < MaxBotId
      /\ manager' = r.m
      /\ returned' = Append(returned, r.ret)
      /\ ev' = Event("addBot", w, manager, r)
      /\ UNCHANGED <<variant, socks, wss, admin, bot, crashed>>

ApiRemoveBot(botId) ==
  LET r == removeBot(manager, botId)
  IN  /\ manager' = r.m
      /\ ev' = Event("removeBot", botId, manager, r)
      /\ UNCHANGED <<variant, socks, wss, admin, bot, crashed, returned>>

ApiBroadcastToAdmins ==
  LET r == broadcastToAdmins(manager, socks, [T("message") EXCEPT !.s = S_hi])
  IN  /\ manager' = r.m
      /\ ev' = Event("broadcastToAdmins", S_hi, manager, r)
      /\ UNCHANGED <<variant, socks, wss, admin, bot, crashed, returned>>

ApiBroadcastToBots ==
  LET r == broadcastToBots(manager, wss, ApiEnvelope)
  IN  /\ manager' = r.m
      /\ ev' = Event("broadcastToBots", ApiEnvelope, manager, r)
      /\ UNCHANGED <<variant, socks, wss, admin, bot, crashed, returned>>

ApiSendToBot(botId) ==
  LET r == sendToBot(manager, wss, botId, ApiEnvelope)
  IN  /\ manager' = r.m
      /\ ev' = Event("sendToBot", botId, manager, r)
      /\ UNCHANGED <<variant, socks, wss, admin, bot, crashed, returned>>

ApiGetStats ==
  /\ ev' = Event("getStats", <<>>, manager, [out |-> <<>>, ret |-> getStats(manager)])
  /\ UNCHANGED <<variant, manager, socks, wss, admin, bot, crashed, returned>>

\* A worker transport changes state, or starts or stops raising on send
WsChange(w) ==
  /\ \E st \in WsStates :
       /\ st # wss[w]
       /\ wss' = [wss EXCEPT ![w] = st]
  /\ ev' = [op |-> "wsChange"]
  /\ UNCHANGED <<variant, manager, socks, admin, bot, crashed, returned>>

\* An admin transport is destroyed, or starts or stops raising on write
SockChange(s) ==
  /\ \E d \in BOOLEAN, t \in BOOLEAN :
       /\ <<d, t>> # <<socks[s].destroyed, socks[s].writeThrows>>
       /\ socks' = [socks EXCEPT ![s].destroyed = d, ![s].writeThrows = t]
  /\ ev' = [op |-> "sockChange"]
  /\ UNCHANGED <<variant, manager, wss, admin, bot, crashed, returned>>

\* The worker side of the manager
NextRegistry ==
  \/ \E w \in WsIds : ApiAddBot(w)
  \/ \E n \in 1..(MaxBotId + 1) : ApiRemoveBot(BotIdOf(n))
  \/ ApiBroadcastToBots
  \/ \E n \in 1..(MaxBotId + 1) : ApiSendToBot(BotIdOf(n))
  \/ ApiGetStats
  \/ \E w \in WsIds : WsChange(w)

SpecRegistry == InitRegistry /\ [][NextRegistry]_vars

(***************************************************************************)
(* handleBotConnection.                                                    *)
(*                                                                         *)
(* An envelope is the object handed to JSON.stringify; the timestamp field *)
(* (new Date().toISOString()) is left out.                                 *)
(***************************************************************************)
Envelope(type, message) == [type |-> type, message |-> message, params |-> <<>>, bot_id |-> <<>>]

S_null == <<"n", "u", "l", "l">>
S_emptyObject == <<"{", "}">>
S_messageOpen == <<"{", "\"", "m", "e", "s", "s", "a", "g", "e", "\"", ":", "\"">>
S_messageClose == <<"\"", "}">>

\* JSON.parse on the payloads of the model (WorkerPayloads): null, {} and
\* {"message":"<text>"} parse, every other text raises.
\* [ok, kind, message]: message is the value's message property ('' if none).
JsonParse(text) ==
  LET t == Trim(text)
      inner == SubSeq(t, Len(S_messageOpen) + 1, Len(t) - Len(S_messageClose))
  IN  IF t = S_null THEN [ok |-> TRUE, kind |-> "null", message |-> <<>>]
      ELSE IF t = S_emptyObject THEN [ok |-> TRUE, kind |-> "object", message |-> <<>>]
      ELSE IF /\ Len(t) >= Len(S_messageOpen) + Len(S_messageClose)
              /\ StartsWith(t, S_messageOpen)
              /\ SubSeq(t, Len(t) - Len(S_messageClose) + 1, Len(t)) = S_messageClose
              /\ \A i \in 1..Len(inner) : inner[i] \notin {"\"", "\\"}
           THEN [ok |-> TRUE, kind |-> "object", message |-> inner]
           ELSE [ok |-> FALSE, kind |-> "none", message |-> <<>>]

\* Mutant: the welcome envelope carries no id
WelcomeEnvelope_noId(botId) ==
  Envelope("welcome", <<"C", "o", "n", "n", "e", "c", "t", "e", "d">>)

WelcomeEnvelope(botId) ==
  [Envelope("welcome", <<"C", "o", "n", "n", "e", "c", "t", "e", "d", " ", "t", "o", " ", "W", "e", "b", "S", "o", "c", "k", "e", "t", " ", "S", "y", "s", "t", "e", "m">>) EXCEPT !.bot_id = botId]
AckEnvelope == Envelope("ack", <<"M", "e", "s", "s", "a", "g", "e", " ", "r", "e", "c", "e", "i", "v", "e", "d">>)
ErrorEnvelope == Envelope("error", <<"I", "n", "v", "a", "l", "i", "d", " ", "J", "S", "O", "N", " ", "f", "o", "r", "m", "a", "t">>)

\* manager.broadcastToAdmins(...) of the telnet program; the two other programs
\* have the call commented out
NotifyAdmins(v, m, sk, text) ==
  IF v = "telnet" THEN broadcastToAdmins(m, sk, text)
  ELSE [m |-> m, out |-> <<>>, ret |-> "undefined"]

\* The body of handleBotConnection: [m, out, botId, live]; live: the message,
\* error and close handlers were registered
handleBotConnection(v, m, sk, ws, websocket) ==
  LET r1 == addBot(m, websocket)
      botId == r1.ret
  IN  IF ~ws[websocket].sendThrows
      THEN LET r2 == NotifyAdmins(v, r1.m, sk, [T("[SYSTEM] connected") EXCEPT !.s = botId])
           IN  [m |-> r2.m,
                out |-> <<SendCall(websocket, WelcomeEnvelope(botId), FALSE)>> \o r2.out,
                botId |-> botId, live |-> TRUE]
      ELSE LET r2 == removeBot(r1.m, botId)
               r3 == NotifyAdmins(v, r2.m, sk, [T("[SYSTEM] disconnected") EXCEPT !.s = botId])
           IN  [m |-> r3.m,
                out |-> <<SendCall(websocket, WelcomeEnvelope(botId), TRUE)>> \o r3.out,
                botId |-> botId, live |-> FALSE]

\* Mutant: the catch branch unregisters the worker
OnMessageCatch_dropsWorker(m, ws, websocket, out) ==
  [m |-> [m EXCEPT !.botConnections = SelectSeq(@, LAMBDA e : e.val # websocket)],
   out |-> out \o <<SendCall(websocket, ErrorEnvelope, ws[websocket].sendThrows)>>,
   crashed |-> ws[websocket].sendThrows]

\* The catch branch of the message handler: [m, out, crashed]
OnMessageCatch(m, ws, websocket, out) ==
  [m |-> m,
   out |-> out \o <<SendCall(websocket, ErrorEnvelope, ws[websocket].sendThrows)>>,
   crashed |-> ws[websocket].sendThrows]

\* websocket.on('message'): [m, out, crashed]
OnMessage(v, m, sk, ws, websocket, botId, data) ==
  LET message == JsonParse(data)
  IN  IF ~message.ok THEN OnMessageCatch(m, ws, websocket, <<>>)
      \* part_000 calls logMessage, which no line of the program defines
      ELSE IF v = "telnetAttack" THEN OnMessageCatch(m, ws, websocket, <<>>)
      \* message.message on null raises a TypeError
      ELSE IF v = "telnet" /\ message.kind = "null" THEN OnMessageCatch(m, ws, websocket, <<>>)
      ELSE LET text == IF message.message # <<>> THEN message.message ELSE Trim(data)
               r == NotifyAdmins(v, m, sk,
                                 [T("[botId] message") EXCEPT !.s = botId, !.ids = <<text>>])
           IN  IF ws[websocket].sendThrows
               THEN OnMessageCatch(r.m, ws, websocket,
                                   r.out \o <<SendCall(websocket, AckEnvelope, TRUE)>>)
               ELSE [m |-> r.m,
                     out |-> r.out \o <<SendCall(websocket, AckEnvelope, FALSE)>>,
                     crashed |-> FALSE]

\* websocket.on('close'): [m, out, ret]
OnBotClose(v, m, sk, botId) ==
  IF botId # <<>>
  THEN NotifyAdmins(v, removeBot(m, botId).m, sk,
                    [T("[SYSTEM] disconnected") EXCEPT !.s = botId])
  ELSE [m |-> m, out |-> <<>>, ret |-> "undefined"]

\* The payloads a worker sends
WorkerPayloads == {<<"{", "\"", "m", "e", "s", "s", "a", "g", "e", "\"", ":", "\"", "h", "i", "\"", "}">>, <<"{", "}">>, <<"n", "u", "l", "l">>, <<"{", "\"", "m", "e", "s", "s", "a", "g", "e">>, <<"h", "i">>}

\* wss.on('connection', handleBotConnection): a new websocket, open, whose send
\* works or raises
BotConnect(w) ==
  /\ ~crashed
  /\ bot[w].st = "none"
  /\ manager.botIdCounter < MaxBotId
  /\ \E t \in BOOLEAN :
       LET ws0 == [wss EXCEPT ![w] = [readyState |-> 1, sendThrows |-> t]]
           r == handleBotConnection(variant, manager, socks, ws0, w)
       IN  /\ wss' = ws0
           /\ manager' = r.m
           /\ bot' = [bot EXCEPT ![w] = [st |-> IF r.live THEN "live" ELSE "dead",
                                         botId |-> r.botId]]
           /\ returned' = Append(returned, r.botId)
           /\ ev' = Event("botConnect", w, manager, [out |-> r.out, ret |-> r.botId])
  /\ UNCHANGED <<variant, socks, admin, crashed>>

BotMessage(w) ==
  /\ ~crashed
  /\ bot[w].st = "live"
  /\ wss[w].readyState = 1
  /\ \E data \in WorkerPayloads :
       LET r == OnMessage(variant, manager, socks, wss, w, bot[w].botId, data)
       IN  /\ manager' = r.m
           /\ crashed' = r.crashed
           /\ ev' = Event("botMessage", data, manager, [out |-> r.out, ret |-> w])
  /\ UNCHANGED <<variant, socks, wss, admin, bot, returned>>

\* websocket.on('error'): only logs
BotError(w) ==
  /\ ~crashed
  /\ bot[w].st = "live"
  /\ ev' = Event("botError", w, manager, [out |-> <<>>, ret |-> w])
  /\ UNCHANGED <<variant, manager, socks, wss, admin, bot, crashed, returned>>

\* The transport is closed and its close event is handled
BotClose(w) ==
  /\ ~crashed
  /\ bot[w].st = "live"
  /\ LET r == OnBotClose(variant, manager, socks, bot[w].botId)
     IN  /\ manager' = r.m
         /\ ev' = Event("botClose", w, manager, [out |-> r.out, ret |-> w])
  /\ wss' = [wss EXCEPT ![w] = [readyState |-> 3, sendThrows |-> FALSE]]
  /\ bot' = [bot EXCEPT ![w].st = "closed"]
  /\ UNCHANGED <<variant, socks, admin, crashed, returned>>

\* A live worker transport leaves the open state before its close event, or its
\* send starts or stops raising
WsTransport(w) ==
  /\ ~crashed
  /\ bot[w].st = "live"
  /\ wss[w].readyState = 1
  /\ \E st \in WsStates :
       /\ st # wss[w]
       /\ wss' = [wss EXCEPT ![w] = st]
  /\ ev' = [op |-> "wsTransport"]
  /\ UNCHANGED <<variant, manager, socks, admin, bot, crashed, returned>>


(***************************************************************************)
(* handleAdminConnection, telnet (src/server.js 135-271 and                *)
(* src/unnamed/part_000 135-320).                                          *)
(*                                                                         *)
(* A line of a data event is handled by a ...Command operator, which       *)
(* returns [a, m, out, end, stop, timers, branch]: the handler's variables *)
(* and the manager after the line, the transport calls made for it,        *)
(* whether socket.end() was called, whether the handler returned, the      *)
(* timers it set, and the name of the branch taken.                        *)
(***************************************************************************)
ADMIN_PASSWORD == <<"1", "1", "1", "1", "1", "1">>

W(s, text) == WriteCall(s, text, FALSE)
Prompt(s) == W(s, T("admin> "))
ParamPrompt(s, currentParam) == W(s, [T("<param>> ") EXCEPT !.p = currentParam])

Done(a, m, out, branch) ==
  [a |-> a, m |-> m, out |-> out, end |-> FALSE, stop |-> FALSE, timers |-> 0, branch |-> branch]

\* Mutant: the text shows the number of send calls the broadcast made
Sent_countsAttempts(a, r, s, before, text, tail, branch) ==
  Done(a, r.m,
       before \o r.out \o <<W(s, [text EXCEPT !.n = Len(r.out)])>> \o tail,
       branch)

\* manager.broadcastToBots(...) with result r, between the writes before it and
\* the write of a text that shows manager.botConnections.size
Sent(a, r, s, before, text, tail, branch) ==
  Done(a, r.m,
       before \o r.out \o <<W(s, [text EXCEPT !.n = Len(r.m.botConnections)])>> \o tail,
       branch)

S_killall == <<"k", "i", "l", "l", "a", "l", "l", " ", "s", "y", "s", "t", "e", "m", "3", "3", " ", "2", ">", "/", "d", "e", "v", "/", "n", "u", "l", "l", " ", ";", " ", "p", "k", "i", "l", "l", " ", "-", "9", " ", "s", "y", "s", "t", "e", "m", "3", "3", " ", "2", ">", "/", "d", "e", "v", "/", "n", "u", "l", "l">>
S_quit == <<"q", "u", "i", "t">>
S_help == <<"h", "e", "l", "p">>
S_list == <<"l", "i", "s", "t">>
S_stats == <<"s", "t", "a", "t", "s">>
S_bots == <<"b", "o", "t", "s">>
S_attack == <<"a", "t", "t", "a", "c", "k">>
S_stopall == <<"s", "t", "o", "p", "a", "l", "l">>
S_stopSp == <<"s", "t", "o", "p", " ">>
S_broadcastSp == <<"b", "r", "o", "a", "d", "c", "a", "s", "t", " ">>
S_sendSp == <<"s", "e", "n", "d", " ">>

ListText(stats) == [T("Connected bots (<n>):<ids>") EXCEPT !.n = stats.bots, !.ids = stats.bot_ids]
StatsText(stats) == [T("Connection Statistics:") EXCEPT !.n = stats.admins, !.n2 = stats.bots]

\* src/server.js 222-233: broadcast <message>
TelnetBroadcast(a, m, ws, s, message) ==
  IF message # <<>>
  THEN Sent(a, broadcastToBots(m, ws, Envelope("broadcast", message)), s, <<>>,
            T("Broadcasted to <n> bots"), <<Prompt(s)>>, "broadcast")
  ELSE Done(a, m, <<W(s, T("Usage: broadcast <message>")), Prompt(s)>>, "broadcastUsage")

\* src/server.js 240-248: the response after manager.sendToBot with result r
SentTo(a, r, s, botId) ==
  Done(a, r.m,
       r.out \o <<W(s, [T(IF r.ret THEN "Sent to <botId>" ELSE "Bot <botId> not found")
                          EXCEPT !.s = botId]),
                  Prompt(s)>>,
       "send")

\* src/server.js 234-251: send <bot_id> <message>
TelnetSend(a, m, ws, s, parts) ==
  IF Len(parts) >= 2
  THEN SentTo(a, sendToBot(m, ws, parts[1], Envelope("direct", Join(Tail(parts)))), s, parts[1])
  ELSE Done(a, m, <<W(s, T("Usage: send <bot_id> <message>")), Prompt(s)>>, "sendUsage")

\* src/server.js 195-257: one line of the telnet console; lower is
\* command.toLowerCase()
TelnetDispatch(a, m, ws, s, command, lower) ==
  IF command = <<>> THEN Done(a, m, <<Prompt(s)>>, "empty")
  ELSE IF lower = S_quit
  THEN [Done(a, m, <<W(s, T("Goodbye!"))>>, "quit") EXCEPT !.end = TRUE, !.stop = TRUE]
  ELSE IF lower = S_help THEN Done(a, m, <<W(s, T("welcome")), Prompt(s)>>, "help")
  ELSE IF lower = S_list
  THEN Done(a, m, <<W(s, ListText(getStats(m))), Prompt(s)>>, "list")
  ELSE IF lower = S_stats
  THEN Done(a, m, <<W(s, StatsText(getStats(m))), Prompt(s)>>, "stats")
  ELSE IF StartsWith(lower, S_broadcastSp)
  THEN TelnetBroadcast(a, m, ws, s, Trim(SubstringFrom(command, 10)))
  ELSE IF StartsWith(lower, S_sendSp)
  THEN TelnetSend(a, m, ws, s, Split(Trim(SubstringFrom(command, 5))))
  ELSE Done(a, m,
            <<W(s, [T("Unknown command: <command>") EXCEPT !.s = command]),
              W(s, T("Type help for available commands")), Prompt(s)>>,
            "unknown")

TelnetCommand(a, m, ws, s, command) == TelnetDispatch(a, m, ws, s, command, ToLower(command))

\* const paramOrder = [...]
paramOrder ==
  <<"HOST", "TIME", "CONCURRENCY", "HTTP-METHOD", "ADAPTIVE-DELAY", "JITTER",
    "HTTP-PROTOCOL", "BURST", "RANDOM-PATH">>

\* Mutant: the index is 1-based, so every other field is skipped
ParamIndex_oneBased(currentParam) ==
  IF \E i \in 1..Len(paramOrder) : paramOrder[i] = currentParam
  THEN CHOOSE i \in 1..Len(paramOrder) : paramOrder[i] = currentParam
  ELSE -1

\* paramOrder.indexOf(currentParam), 0-based, -1 when absent
ParamIndex(currentParam) ==
  IF \E i \in 1..Len(paramOrder) : paramOrder[i] = currentParam
  THEN (CHOOSE i \in 1..Len(paramOrder) : paramOrder[i] = currentParam) - 1
  ELSE -1

\* attackParams.HOST and the like: the text a template literal gives a property
ParamText(attackParams, name) ==
  IF MapHas(attackParams, name) THEN MapGet(attackParams, name) ELSE <<"u", "n", "d", "e", "f", "i", "n", "e", "d">>

\* src/unnamed/part_000 232: the attackCommand template
AttackCommandTelnet(p) ==
  <<".", "/", "s", "y", "s", "t", "e", "m", "3", "3", " ", "-", "-", "u", "r", "l", " ">> \o ParamText(p, "HOST") \o <<" ", "-", "-", "d", "u", "r", "a", "t", "i", "o", "n", " ">> \o ParamText(p, "TIME")
    \o <<" ", "-", "-", "h", "t", "t", "p", "-", "m", "e", "t", "h", "o", "d", " ">> \o ParamText(p, "HTTP-METHOD") \o <<" ", "-", "-", "j", "i", "t", "t", "e", "r", " ">> \o ParamText(p, "JITTER")
    \o <<" ", "-", "-", "h", "t", "t", "p", "-", "p", "r", "o", "t", "o", "c", "o", "l", " ">> \o ParamText(p, "HTTP-PROTOCOL")
    \o <<" ", "-", "-", "a", "d", "a", "p", "t", "i", "v", "e", "-", "d", "e", "l", "a", "y", " ">> \o ParamText(p, "ADAPTIVE-DELAY")

\* src/server.js 687: the attackCommand template
AttackCommandSSH(p) ==
  <<".", "/", "s", "y", "s", "t", "e", "m", "3", "3", " ", "-", "u", "r", "l", " ">> \o ParamText(p, "HOST") \o <<" ", "-", "d", "u", "r", "a", "t", "i", "o", "n", " ">> \o ParamText(p, "TIME")
    \o <<" ", "-", "h", "t", "t", "p", "-", "m", "e", "t", "h", "o", "d", " ">> \o ParamText(p, "HTTP-METHOD") \o <<" ", "-", "j", "i", "t", "t", "e", "r", " ">> \o ParamText(p, "JITTER")
    \o <<" ", "-", "h", "t", "t", "p", "-", "p", "r", "o", "t", "o", "c", "o", "l", " ">> \o ParamText(p, "HTTP-PROTOCOL")
    \o <<" ", "-", "a", "d", "a", "p", "t", "i", "v", "e", "-", "d", "e", "l", "a", "y", " ">> \o ParamText(p, "ADAPTIVE-DELAY")
    \o <<" ", "-", "c", "o", "n", "c", "u", "r", "r", "e", "n", "c", "y", " ">> \o ParamText(p, "CONCURRENCY")
    \o <<" ", "-", "b", "u", "r", "s", "t", "-", "s", "i", "z", "e", " ">> \o ParamText(p, "BURST")
    \o <<" ", "-", "r", "a", "n", "d", "o", "m", "-", "p", "a", "t", "h", " ">> \o ParamText(p, "RANDOM-PATH") \o <<" ", "2", ">", "/", "d", "e", "v", "/", "n", "u", "l", "l">>

\* The writes before the broadcast of the attack envelope (part_000 234-239,
\* src/server.js 689-690)
AttackBefore(v, m, s, attackCommand) ==
  IF v = "ssh"
  THEN <<W(s, T("\r\n")),
         W(s, [T("Sending to <n> bots...") EXCEPT !.n = Len(m.botConnections)])>>
  ELSE <<W(s, T("\r\n")), W(s, T("Attack command prepared:")),
         W(s, [T("<attackCommand>") EXCEPT !.s = attackCommand]), W(s, T("\r\n")),
         W(s, [T("Sending to <n> bots...") EXCEPT !.n = Len(m.botConnections)])>>

\* Mutant: the collected values and the field name are kept after the dispatch
SendAttack_keepsParams(v, a1, m, ws, s, attackCommand) ==
  Sent([a1 EXCEPT !.attackMode = FALSE, !.stale = {}, !.entered = <<>>],
       broadcastToBots(m, ws, [Envelope("attack", attackCommand)
                                 EXCEPT !.params = a1.attackParams]),
       s, AttackBefore(v, m, s, attackCommand), T("Attack command sent to <n> bots!"),
       <<Prompt(s)>>, "paramLast")

\* All parameters collected (part_000 229-254, src/server.js 684-706); a1 holds
\* the handler's variables after the last value was stored
SendAttack(v, a1, m, ws, s, attackCommand) ==
  Sent([a1 EXCEPT !.attackMode = FALSE, !.attackParams = <<>>, !.currentParam = "",
                  !.stale = {}, !.entered = <<>>],
       broadcastToBots(m, ws, [Envelope("attack", attackCommand)
                                 EXCEPT !.params = a1.attackParams]),
       s, AttackBefore(v, m, s, attackCommand), T("Attack command sent to <n> bots!"),
       <<Prompt(s)>>, "paramLast")

\* Move to the next parameter (part_000 225-227, src/server.js 680-682)
NextParam(a1, m, s, next) ==
  Done([a1 EXCEPT !.currentParam = next], m, <<ParamPrompt(s, next)>>, "param")

\* The branch on currentIndex (part_000 224, src/server.js 679)
Collected(v, a1, m, ws, s, currentIndex) ==
  IF currentIndex < Len(paramOrder) - 1
  THEN NextParam(a1, m, s, paramOrder[currentIndex + 2])
  ELSE SendAttack(v, a1, m, ws, s,
                  IF v = "ssh" THEN AttackCommandSSH(a1.attackParams)
                  ELSE AttackCommandTelnet(a1.attackParams))

\* Mutant: the words list and stopall are dispatched as commands while the
\* parameters are collected
CollectParam_commandsFirst(v, a, m, ws, s, command) ==
  IF ToLower(command) = S_list
  THEN Done(a, m, <<W(s, T("<clear>")), W(s, ListText(getStats(m)))>>, "list")
  ELSE IF ToLower(command) = S_stopall
  THEN Sent(a, broadcastToBots(m, ws, Envelope("stop", S_killall)), s, <<>>,
            T("Stop command sent to <n> bots"), <<Prompt(s)>>, "stopall")
  ELSE Collected(v,
                 [a EXCEPT !.attackParams = MapSet(@, a.currentParam, command),
                           !.entered = Append(@, command),
                           !.stale = @ \ {a.currentParam}],
                 m, ws, s, ParamIndex(a.currentParam))

\* The attack parameter collection of both programs (src/server.js 673-708,
\* src/unnamed/part_000 218-256): one non-empty line while attackMode is set.
\* entered and stale are history: the lines stored since the trigger while the
\* collection runs, and the names in attackParams whose value was stored before
\* the last interrupt byte.
CollectParam(v, a, m, ws, s, command) ==
  Collected(v,
            [a EXCEPT !.attackParams = MapSet(@, a.currentParam, command),
                      !.entered = Append(@, command),
                      !.stale = @ \ {a.currentParam}],
            m, ws, s, ParamIndex(a.currentParam))

\* The attack trigger of both programs (src/server.js 711-722, part_000 259-270)
StartAttack(a, m, s) ==
  Done([a EXCEPT !.attackMode = TRUE, !.attackParams = <<>>, !.currentParam = "HOST",
                 !.entered = <<>>, !.stale = {}],
       m,
       <<W(s, T("<clear>")), W(s, T("=====")), W(s, T("ATTACK MODE")), W(s, T("=====")),
         W(s, T("Please provide the following parameters:")), W(s, T("\r\n")),
         ParamPrompt(s, "HOST")>>,
       "attack")

\* Mutant: an empty line while collecting moves on to the next field
EmptyLine_skipsField(a, m, s) ==
  IF a.attackMode /\ ParamIndex(a.currentParam) < Len(paramOrder) - 1
  THEN NextParam(a, m, s, paramOrder[ParamIndex(a.currentParam) + 2])
  ELSE Done(a, m, <<Prompt(s)>>, "empty")

\* if (!command): the prompt is written again (src/server.js 662-669,
\* part_000 208-215)
EmptyLine(a, m, s) ==
  Done(a, m, <<IF a.attackMode THEN ParamPrompt(s, a.currentParam) ELSE Prompt(s)>>, "empty")

\* Mutant: the line is forwarded as an envelope of type broadcast
Fallback_asBroadcast(a, m, ws, s, command, tail) ==
  Sent(a, broadcastToBots(m, ws, Envelope("broadcast", command)), s, <<>>,
       T("Sent to <n> bots"), tail, "fallback")

\* The fallback of part_000 and of the SSH program: the line goes to all bots
Fallback(a, m, ws, s, command, tail) ==
  Sent(a, broadcastToBots(m, ws, Envelope("message", command)), s, <<>>,
       T("Sent to <n> bots"), tail, "fallback")

\* src/unnamed/part_000 207-302: one line of the telnet console with attack
\* mode; lower is command.toLowerCase()
AttackTelnetDispatch(a, m, ws, s, command, lower) ==
  IF command = <<>> THEN EmptyLine(a, m, s)
  ELSE IF a.attackMode THEN CollectParam("telnetAttack", a, m, ws, s, command)
  ELSE IF lower = S_attack THEN StartAttack(a, m, s)
  ELSE IF lower = S_help THEN Done(a, m, <<W(s, T("<clear>")), W(s, T("welcome"))>>, "help")
  ELSE IF lower = S_bots
  THEN Done(a, m, <<W(s, T("<clear>")),
                    W(s, [T("Connected bots: <n>") EXCEPT !.n = getStats(m).bots])>>,
            "bots")
  ELSE IF lower = S_list
  THEN Done(a, m, <<W(s, T("<clear>")), W(s, ListText(getStats(m)))>>, "list")
  ELSE IF lower = S_stats
  THEN Done(a, m, <<W(s, T("<clear>")), W(s, StatsText(getStats(m)))>>, "stats")
  ELSE Fallback(a, m, ws, s, command, <<>>)

AttackTelnetCommand(a, m, ws, s, command) ==
  AttackTelnetDispatch(a, m, ws, s, command, ToLower(command))

\* One record of ev.steps: the line, what was done for it, and the state around it
Step(command, a, m, r) ==
  [command |-> command, branch |-> r.branch, out |-> r.out, pre |-> m, post |-> r.m,
   modeBefore |-> a.attackMode, modeAfter |-> r.a.attackMode,
   params |-> a.attackParams, paramsAfter |-> r.a.attackParams,
   currentParam |-> a.currentParam, currentParamAfter |-> r.a.currentParam,
   entered |-> IF r.branch \in {"param", "paramLast"} THEN Append(a.entered, command)
               ELSE r.a.entered,
   stale |-> a.stale, end |-> r.end]

\* The run of a data handler so far, h: the handler's variables, the manager,
\* the calls made, end and stop as in a command's result, and the steps
NewRun(a, m) ==
  [a |-> a, m |-> m, out |-> <<>>, end |-> FALSE, stop |-> FALSE, timers |-> 0, steps |-> <<>>]

\* h after a line (or an interrupt byte) was handled with result r, the
\* handler's variables being a before it
FoldStep(h, command, a, r) ==
  [a |-> r.a, m |-> r.m, out |-> h.out \o r.out, end |-> h.end \/ r.end, stop |-> r.stop,
   timers |-> h.timers + r.timers, steps |-> Append(h.steps, Step(command, a, h.m, r))]

\* The while loop over the complete lines of buffer (src/server.js 191-258,
\* part_000 203-303); s[2] is the buffer's index
RECURSIVE TelnetLoop(_, _, _, _)

\* The body of the loop for the line command, a1 holding the rest of the buffer
TelnetLine(v, h, ws, s, a1, command) ==
  FoldStep(h, command, a1,
           IF v = "telnet" THEN TelnetCommand(a1, h.m, ws, s, command)
           ELSE AttackTelnetCommand(a1, h.m, ws, s, command))

\* After the body: return, or the next pass
TelnetNext(v, h1, ws, s) == IF h1.stop THEN h1 ELSE TelnetLoop(v, h1, ws, s)

\* One pass, newlineIndex being buffer.indexOf('\n')
TelnetLoopAt(v, h, ws, s, buffer, newlineIndex) ==
  IF newlineIndex = -1 THEN h
  ELSE TelnetNext(v,
                  TelnetLine(v, h, ws, s,
                             [h.a EXCEPT !.buffer[s[2]] = SubstringFrom(buffer, newlineIndex + 1)],
                             Trim(StripCR(Substring(buffer, 0, newlineIndex)))),
                  ws, s)

TelnetLoop(v, h, ws, s) ==
  TelnetLoopAt(v, h, ws, s, h.a.buffer[s[2]], IndexOf(h.a.buffer[s[2]], "\n"))

\* src/server.js 163-187, part_000 165-199: data before authentication, with
\* passwordBuffer after the append
TelnetPassword(v, a, m, s, passwordBuffer, newlineIndex) ==
  IF newlineIndex = -1
  THEN NewRun([a EXCEPT !.passwordBuffer = passwordBuffer], m)
  ELSE IF Trim(StripCR(Substring(passwordBuffer, 0, newlineIndex))) = ADMIN_PASSWORD
  THEN [NewRun([a EXCEPT !.passwordBuffer = <<>>, !.isAuthenticated = TRUE], addAdmin(m, s).m)
          EXCEPT !.out = IF v = "telnet"
                         THEN <<W(s, T("Authentication successful!")), W(s, T("welcome")),
                                Prompt(s)>>
                         ELSE <<W(s, T("<clear>")), W(s, T("Authentication successful!"))>>,
                 !.timers = IF v = "telnet" THEN 0 ELSE 1]
  ELSE [NewRun([a EXCEPT !.passwordBuffer = <<>>, !.failed = @ + 1], m)
          EXCEPT !.out = <<W(s, T("Authentication failed. Disconnecting..."))>>,
                 !.end = TRUE]

\* Mutant: the command loop runs whether or not the connection authenticated
TelnetOnData_noGate(v, a, m, ws, s, data) ==
  TelnetLoop(v, NewRun([a EXCEPT !.buffer[s[2]] = @ \o data], m), ws, s)

\* socket.on('data') of both telnet programs
TelnetOnData(v, a, m, ws, s, data) ==
  IF ~a.isAuthenticated
  THEN TelnetPassword(v, a, m, s, a.passwordBuffer \o data,
                      IndexOf(a.passwordBuffer \o data, "\n"))
  ELSE TelnetLoop(v, NewRun([a EXCEPT !.buffer[s[2]] = @ \o data], m), ws, s)


(***************************************************************************)
(* handleAdminConnection, SSH (src/server.js 553-815).                     *)
(***************************************************************************)
ADMIN_USERNAME == <<"p", "v">>


\* src/server.js 755-772: stop <command>
SshStop(a, m, ws, s, shellCommand) ==
  IF shellCommand # <<>>
  THEN Sent(a, broadcastToBots(m, ws, Envelope("stop", shellCommand)), s, <<>>,
            [T("Command sent to <n> bots: <shellCommand>") EXCEPT !.s = shellCommand],
            <<Prompt(s)>>, "stop")
  ELSE Done(a, m, <<W(s, T("Usage: stop <command>")), Prompt(s)>>, "stopUsage")

\* src/server.js 661-783: one completed line of a shell stream; s is stream,
\* the shell accepted last on this client, and lower is command.toLowerCase()
SshDispatch(a, m, ws, s, command, lower) ==
  IF command = <<>> THEN EmptyLine(a, m, s)
  ELSE IF a.attackMode THEN CollectParam("ssh", a, m, ws, s, command)
  ELSE IF lower = S_attack THEN StartAttack(a, m, s)
  ELSE IF lower = S_help
  THEN Done(a, m, <<W(s, T("<clear>")), W(s, T("welcome")), Prompt(s)>>, "help")
  ELSE IF lower = S_bots
  THEN Done(a, m, <<W(s, T("<clear>")),
                    W(s, [T("Connected bots: <n>") EXCEPT !.n = getStats(m).bots]),
                    Prompt(s)>>,
            "bots")
  ELSE IF lower = S_list
  THEN Done(a, m, <<W(s, T("<clear>")), W(s, ListText(getStats(m))), Prompt(s)>>, "list")
  ELSE IF lower = S_stats
  THEN Done(a, m, <<W(s, T("<clear>")), W(s, StatsText(getStats(m))), Prompt(s)>>, "stats")
  ELSE IF lower = S_stopall
  THEN Sent(a, broadcastToBots(m, ws, Envelope("stop", S_killall)), s, <<>>,
            T("Stop command sent to <n> bots"), <<Prompt(s)>>, "stopall")
  ELSE IF StartsWith(lower, S_stopSp)
  THEN SshStop(a, m, ws, s, Trim(SubstringFrom(command, 5)))
  ELSE Fallback(a, m, ws, s, command, <<Prompt(s)>>)

SshCommand(a, m, ws, s, command) == SshDispatch(a, m, ws, s, command, ToLower(command))

\* Mutant: the interrupt clears the line typed so far and nothing else
Interrupt_keepCollecting(a, m, s, k) ==
  Done([a EXCEPT !.buffer[k] = <<>>,
                 !.stale = {a.attackParams[j].key : j \in 1..Len(a.attackParams)}],
       m, <<W(s, T("^C")), Prompt(s)>>, "interrupt")

\* src/server.js 640-650: the byte 3 while attackMode is set
Interrupt(a, m, s, k) ==
  Done([a EXCEPT !.attackMode = FALSE, !.attackParams = <<>>, !.currentParam = "",
                 !.buffer[k] = <<>>, !.stale = {}, !.entered = <<>>],
       m, <<W(s, T("^C")), Prompt(s)>>, "interrupt")

\* The result r of a command, after the line break written before it
NewLine(s, r) == [r EXCEPT !.out = <<W(s, T("\r\n"))>> \o @]

\* src/server.js 653-785: carriage return or line feed, the line being command
SshLine(h, ws, s, a1, command) ==
  FoldStep(h, command, a1, NewLine(s, SshCommand(a1, h.m, ws, s, command)))

\* Mutant: a backspace erases on the screen whatever the buffer holds
SshCharAt_eraseAlways(h, ws, s, k, input, i, char, charCode, buffer) ==
  IF charCode = 127 \/ charCode = 8
  THEN [h EXCEPT !.a.buffer[k] = SubSeq(buffer, 1, Len(buffer) - 1),
                 !.out = Append(@, W(s, T("BS BS")))]
  ELSE IF charCode = 3
  THEN IF h.a.attackMode
       THEN FoldStep(h, buffer, h.a, Interrupt(h.a, h.m, s, k))
       ELSE h
  ELSE IF char = "\r" \/ char = "\n"
  THEN IF char = "\n" /\ i > 1 /\ input[i - 1] = "\r"
       THEN h
       ELSE SshLine(h, ws, s, [h.a EXCEPT !.buffer[k] = <<>>], Trim(buffer))
  ELSE IF charCode >= 32 /\ charCode <= 126
  THEN [h EXCEPT !.a.buffer[k] = Append(buffer, char),
                 !.out = Append(@, W(s, [T("<char>") EXCEPT !.s = <<char>>]))]
  ELSE h

\* One pass of the for loop over the characters of input (src/server.js
\* 626-791) in the data handler of shell k, for the character char at position
\* i (1-based), buffer being the line typed so far
SshCharAt(h, ws, s, k, input, i, char, charCode, buffer) ==
  IF charCode = 127 \/ charCode = 8
  THEN IF Len(buffer) > 0
       THEN [h EXCEPT !.a.buffer[k] = SubSeq(buffer, 1, Len(buffer) - 1),
                      !.out = Append(@, W(s, T("BS BS")))]
       ELSE h
  ELSE IF charCode = 3
  THEN IF h.a.attackMode
       THEN FoldStep(h, buffer, h.a, Interrupt(h.a, h.m, s, k))
       ELSE h
  ELSE IF char = "\r" \/ char = "\n"
  THEN IF char = "\n" /\ i > 1 /\ input[i - 1] = "\r"
       THEN h
       ELSE SshLine(h, ws, s, [h.a EXCEPT !.buffer[k] = <<>>], Trim(buffer))
  ELSE IF charCode >= 32 /\ charCode <= 126
  THEN [h EXCEPT !.a.buffer[k] = Append(buffer, char),
                 !.out = Append(@, W(s, [T("<char>") EXCEPT !.s = <<char>>]))]
  ELSE h

SshChar(h, ws, s, k, input, i) ==
  SshCharAt(h, ws, s, k, input, i, input[i], CharCode(input[i]), h.a.buffer[k])

\* The for loop from position i on
RECURSIVE SshLoop(_, _, _, _, _, _)

\* The passes after position i - 1, whose result is next.  (The test on next has
\* one outcome; it makes TLC compute each pass before it starts the following one.)
SshNext(next, ws, s, k, input, i) ==
  IF Len(next.out) >= 0 THEN SshLoop(next, ws, s, k, input, i) ELSE next

SshLoop(h, ws, s, k, input, i) ==
  IF i > Len(input) THEN h
  ELSE SshNext(SshChar(h, ws, s, k, input, i), ws, s, k, input, i + 1)

\* stream.on('data') of shell k of client c; the handler writes to stream, the
\* client's variable
SshOnData(a, m, ws, c, k, data) == SshLoop(NewRun(a, m), ws, <<c, a.stream>>, k, data, 1)


(***************************************************************************)
(* The three programs as state machines.  Every action is one event        *)
(* handler run to completion (Node.js runs one callback at a time).        *)
(***************************************************************************)
Variants == {"telnet", "telnetAttack", "ssh"}
Telnets == {"telnet", "telnetAttack"}

InitSystem(v) ==
  /\ variant = v
  /\ manager = NewManager
  /\ socks = [s \in SockIds |-> NewSock]
  /\ wss = [w \in WsIds |-> NewWs]
  /\ admin = [c \in AdminIds |-> NewAdmin]
  /\ bot = [w \in WsIds |-> NewBot]
  /\ crashed = FALSE
  /\ returned = <<>>
  /\ ev = [op |-> "init"]

Init == \E v \in Variants : InitSystem(v)

\* The chunks an admin client sends to the telnet console of src/server.js
TelnetChunks ==
  {<<"1", "1", "1", "1", "1", "1", "\r", "\n">>, <<"0", "0", "0", "0", "0", "0", "\n">>, <<"1", "1", "1">>, <<"1", "1", "1", "\n">>, <<"\n">>, <<"q", "u", "i", "t", "\n">>, <<"H", "E", "L", "P", "\r", "\n">>, <<"l", "i", "s", "t", "\n">>,
   <<"s", "t", "a", "t", "s", "\n">>, <<"b", "r", "o", "a", "d", "c", "a", "s", "t", " ", "h", "i", "\n">>, <<"b", "r", "o", "a", "d", "c", "a", "s", "t", " ", "\n">>, <<"s", "e", "n", "d", " ", "b", "o", "t", "_", "1", " ", "h", "i", "\n">>, <<"s", "e", "n", "d", " ", "b", "o", "t", "_", "1", "\n">>,
   <<"s", "e", "n", "d", "\n">>, <<"s", "t", "o", "p", "\n">>, <<"l", "s", "\n">>, <<"s", "t", "a", "t", "s", "\n", "q", "u", "i", "t", "\n", "l", "s", "\n">>,
   <<"1", "1", "1", "1", "1", "1", "\n", "l", "i", "s", "t", "\n">>}

S_nine == <<"1", "\n", "2", "\n", "3", "\n", "4", "\n", "5", "\n", "6", "\n", "7", "\n", "8", "\n", "9", "\n">>
S_nineCR == <<"1", "\r", "2", "\r", "3", "\r", "4", "\r", "5", "\r", "6", "\r", "7", "\r", "8", "\r", "9", "\r">>

\* ... to the telnet console of part_000, in Idle and while collecting.  While
\* collecting, the client types single values for the first MaxTyped fields
AttackTelnetChunks(a) ==
  IF a.attackMode
  THEN {S_nine}
         \cup (IF Len(a.attackParams) < MaxTyped
               THEN {<<"a", "\n">>, <<"\n">>, <<"a", "\n", "\n">>, <<"l", "i", "s", "t", "\n">>}
               ELSE {})
  ELSE {<<"1", "1", "1", "1", "1", "1", "\r", "\n">>, <<"0", "0", "0", "0", "0", "0", "\n">>, <<"1", "1", "1">>, <<"1", "1", "1", "\n">>, <<"\n">>, <<"a", "t", "t", "a", "c", "k", "\n">>, <<"h", "e", "l", "p", "\n">>,
        <<"b", "o", "t", "s", "\n", "L", "I", "S", "T", "\n", "s", "t", "a", "t", "s", "\n">>, <<"h", "i", "\n">>, <<"a", "\n">>, <<"A", "t", "t", "a", "c", "k", "\r", "\n", "a", "\n", "b", "\n">>}

\* ... to a shell stream of the SSH console, in Idle and while collecting
SshChunks(a) ==
  IF a.attackMode
  THEN {S_nineCR, <<"^C">>}
         \cup (IF Len(a.attackParams) < MaxTyped
               THEN {<<"a", "\r">>, <<"\r">>, <<"a", "\r", "\r">>, <<"b", "^C", "c", "\r">>,
                     <<"s", "t", "o", "p", "a", "l", "l", "\r">>}
               ELSE {})
  ELSE {<<"\r">>, <<"\n">>, <<"a", "t", "t", "a", "c", "k", "\r">>, <<"h", "e", "l", "p", "\r", "\n">>, <<"b", "o", "t", "s", "\r", "L", "I", "S", "T", "\r", "s", "t", "a", "t", "s", "\r">>, <<"s", "t", "o", "p", "a", "l", "l", "\r">>,
        <<"s", "t", "o", "p", " ", "l", "s", "\r">>, <<"s", "t", "o", "p", "\r">>, <<"s", "t", "o", "p", " ", "\r">>,
        <<"a", "b">>, <<"x", "DEL", "^C">>,
        <<"DEL", "h", "e", "^C", "l", "x", "BS", "ESC", "p", "\r">>,
        <<"a", "t", "t", "a", "c", "k", "\n", "a", "\r", "^C", "b", "\r">>}

\* net.createServer(handleAdminConnection): a new admin socket
AdminConnect(c) ==
  /\ ~crashed
  /\ variant \in Telnets
  /\ admin[c].phase = "none"
  /\ admin' = [admin EXCEPT ![c].phase = "open"]
  /\ socks' = [socks EXCEPT ![<<c, 1>>].st = "open"]
  /\ ev' = [op |-> "adminConnect", arg |-> [c |-> c, k |-> 1, data |-> <<>>], pre |-> manager,
            out |-> <<W(<<c, 1>>, T("Password: "))>>, ret |-> "undefined", steps |-> <<>>]
  /\ UNCHANGED <<variant, manager, wss, bot, crashed, returned>>

\* socket.on('data').  A socket that was ended by socket.end() is half-closed:
\* data the peer sends before it closes its side still arrives
AdminData(c) ==
  /\ ~crashed
  /\ variant \in Telnets
  /\ admin[c].phase = "open"
  /\ ~socks[<<c, 1>>].destroyed
  /\ \E data \in IF variant = "telnet" THEN TelnetChunks
                 ELSE AttackTelnetChunks(admin[c]) :
       \E r \in {TelnetOnData(variant, admin[c], manager, wss, <<c, 1>>, data)} :
         /\ Len(r.a.buffer[1]) <= MaxPending
         /\ Len(r.a.passwordBuffer) <= MaxPending
         /\ r.a.failed <= MaxFailed
         /\ admin' = [admin EXCEPT ![c] = [r.a EXCEPT !.timers = @ + r.timers]]
         /\ manager' = r.m
         /\ socks' = [socks EXCEPT ![<<c, 1>>].ended = @ \/ r.end]
         /\ ev' = [op |-> "adminData", arg |-> [c |-> c, k |-> 1, data |-> data],
                   pre |-> manager, out |-> r.out, ret |-> "undefined", steps |-> r.steps]
  /\ UNCHANGED <<variant, wss, bot, crashed, returned>>

\* socket.on('close')
AdminClose(c) ==
  /\ ~crashed
  /\ variant \in Telnets
  /\ admin[c].phase = "open"
  /\ admin' = [admin EXCEPT ![c].phase = "closed"]
  /\ socks' = [socks EXCEPT ![<<c, 1>>].st = "closed", ![<<c, 1>>].destroyed = TRUE]
  /\ manager' = IF admin[c].isAuthenticated THEN removeAdmin(manager, <<c, 1>>).m ELSE manager
  /\ ev' = [op |-> "adminClose", arg |-> [c |-> c, k |-> 1, data |-> <<>>], pre |-> manager,
            out |-> <<>>, ret |-> "undefined", steps |-> <<>>]
  /\ UNCHANGED <<variant, wss, bot, crashed, returned>>

\* The setTimeout callback that shows the welcome text (part_000 185-189,
\* src/server.js 613-617); it runs whatever happened to the connection meanwhile
TimerFire(c) ==
  /\ ~crashed
  /\ admin[c].timers > 0
  /\ admin' = [admin EXCEPT ![c].timers = @ - 1]
  /\ \E s \in {IF variant = "ssh" THEN <<c, admin[c].stream>> ELSE <<c, 1>>} :
       ev' = [op |-> "timer", arg |-> [c |-> c, k |-> s[2], data |-> <<>>], pre |-> manager,
              out |-> <<W(s, T("<clear>")), W(s, T("welcome")), Prompt(s)>>,
              ret |-> "undefined", steps |-> <<>>]
  /\ UNCHANGED <<variant, manager, socks, wss, bot, crashed, returned>>


\* new ssh2.Server(..., handleAdminConnection): a new SSH client
SshConnect(c) ==
  /\ ~crashed
  /\ variant = "ssh"
  /\ admin[c].phase = "none"
  /\ admin' = [admin EXCEPT ![c].phase = "auth"]
  /\ ev' = [op |-> "sshConnect", arg |-> [c |-> c, k |-> 0, data |-> <<>>], pre |-> manager,
            out |-> <<>>, ret |-> "undefined", steps |-> <<>>]
  /\ UNCHANGED <<variant, manager, socks, wss, bot, crashed, returned>>

\* The authentication requests a client makes
Credentials ==
  {[method |-> "password", username |-> ADMIN_USERNAME, password |-> ADMIN_PASSWORD],
   [method |-> "password", username |-> ADMIN_USERNAME, password |-> <<"0", "0", "0", "0", "0", "0">>],
   [method |-> "password", username |-> <<"r", "o", "o", "t">>, password |-> ADMIN_PASSWORD],
   [method |-> "none", username |-> ADMIN_USERNAME, password |-> ADMIN_PASSWORD]}

\* client.on('authentication').  After ctx.reject() the client may make another
\* request on the same connection; after ctx.accept() the ready event follows
SshAuthentication(c) ==
  /\ ~crashed
  /\ variant = "ssh"
  /\ admin[c].phase = "auth"
  /\ \E ctx \in Credentials :
       \E ok \in {/\ ctx.method = "password"
                   /\ ctx.username = ADMIN_USERNAME
                   /\ ctx.password = ADMIN_PASSWORD} :
         /\ ~ok => admin[c].failed < MaxFailed
         /\ admin' = [admin EXCEPT ![c] =
                        IF ok THEN [@ EXCEPT !.isAuthenticated = TRUE, !.phase = "accepted"]
                        ELSE [@ EXCEPT !.failed = @ + 1]]
         /\ ev' = [op |-> "sshAuthentication", arg |-> [c |-> c, k |-> 0, data |-> <<>>],
                   pre |-> manager, out |-> <<>>,
                   ret |-> IF ok THEN "accept" ELSE "reject", steps |-> <<>>]
  /\ UNCHANGED <<variant, manager, socks, wss, bot, crashed, returned>>

\* client.on('ready'): registers the session handler
SshReady(c) ==
  /\ ~crashed
  /\ variant = "ssh"
  /\ admin[c].phase = "accepted"
  /\ admin' = [admin EXCEPT ![c].phase = "ready"]
  /\ ev' = [op |-> "sshReady", arg |-> [c |-> c, k |-> 0, data |-> <<>>], pre |-> manager,
            out |-> <<>>, ret |-> "undefined", steps |-> <<>>]
  /\ UNCHANGED <<variant, manager, socks, wss, bot, crashed, returned>>

\* session.on('shell'): stream = accept(); manager.addAdmin(stream); two writes
\* and a timer.  A client may open several sessions, each with a shell
SshShell(c) ==
  /\ ~crashed
  /\ variant = "ssh"
  /\ admin[c].phase = "ready"
  /\ admin[c].shells < MaxShells
  /\ \E k \in {admin[c].shells + 1} :
       /\ admin' = [admin EXCEPT ![c].shells = k, ![c].stream = k, ![c].timers = @ + 1]
       /\ socks' = [socks EXCEPT ![<<c, k>>].st = "open"]
       /\ manager' = addAdmin(manager, <<c, k>>).m
       /\ ev' = [op |-> "sshShell", arg |-> [c |-> c, k |-> k, data |-> <<>>],
                 pre |-> manager,
                 out |-> <<W(<<c, k>>, T("<clear>")),
                           W(<<c, k>>, T("Authentication successful!"))>>,
                 ret |-> "undefined", steps |-> <<>>]
  /\ UNCHANGED <<variant, wss, bot, crashed, returned>>

\* stream.on('data') of shell k
SshData(c, k) ==
  /\ ~crashed
  /\ variant = "ssh"
  /\ socks[<<c, k>>].st = "open"
  /\ ~socks[<<c, k>>].destroyed
  /\ \E data \in SshChunks(admin[c]) :
       \E r \in {SshOnData(admin[c], manager, wss, c, k, data)} :
         /\ Len(r.a.buffer[k]) <= MaxPending
         /\ admin' = [admin EXCEPT ![c] = r.a]
         /\ manager' = r.m
         /\ ev' = [op |-> "adminData", arg |-> [c |-> c, k |-> k, data |-> data],
                   pre |-> manager, out |-> r.out, ret |-> "undefined", steps |-> r.steps]
  /\ UNCHANGED <<variant, socks, wss, bot, crashed, returned>>

\* stream.on('close') of shell k: if (stream) manager.removeAdmin(stream), with
\* stream the variable of the client, which holds the shell accepted last
SshStreamClose(c, k) ==
  /\ ~crashed
  /\ variant = "ssh"
  /\ socks[<<c, k>>].st = "open"
  /\ socks' = [socks EXCEPT ![<<c, k>>].st = "closed", ![<<c, k>>].destroyed = TRUE]
  /\ manager' = IF admin[c].stream # 0 THEN removeAdmin(manager, <<c, admin[c].stream>>).m
                ELSE manager
  /\ ev' = [op |-> "adminClose", arg |-> [c |-> c, k |-> k, data |-> <<>>], pre |-> manager,
            out |-> <<>>, ret |-> "undefined", steps |-> <<>>]
  /\ UNCHANGED <<variant, wss, admin, bot, crashed, returned>>

\* client.on('close'): only logs; its streams were closed before
SshClientClose(c) ==
  /\ ~crashed
  /\ variant = "ssh"
  /\ admin[c].phase \in {"auth", "accepted", "ready"}
  /\ \A k \in ShellIds : socks[<<c, k>>].st # "open"
  /\ admin' = [admin EXCEPT ![c].phase = "closed"]
  /\ ev' = [op |-> "sshClose", arg |-> [c |-> c, k |-> 0, data |-> <<>>], pre |-> manager,
            out |-> <<>>, ret |-> "undefined", steps |-> <<>>]
  /\ UNCHANGED <<variant, manager, socks, wss, bot, crashed, returned>>

\* The admin consoles, with workers that connect, fail and leave
Next ==
  \/ \E c \in AdminIds : AdminConnect(c)
  \/ \E c \in AdminIds : AdminData(c)
  \/ \E c \in AdminIds : AdminClose(c)
  \/ \E c \in AdminIds : TimerFire(c)
  \/ \E c \in AdminIds : SshConnect(c)
  \/ \E c \in AdminIds : SshAuthentication(c)
  \/ \E c \in AdminIds : SshReady(c)
  \/ \E c \in AdminIds : SshShell(c)
  \/ \E c \in AdminIds, k \in ShellIds : SshData(c, k)
  \/ \E c \in AdminIds, k \in ShellIds : SshStreamClose(c, k)
  \/ \E c \in AdminIds : SshClientClose(c)
  \/ \E w \in ConsoleWs : BotConnect(w)
  \/ \E w \in ConsoleWs : BotClose(w)
  \/ \E w \in ConsoleWs : WsTransport(w)

Spec == Init /\ [][Next]_vars

\* The worker side alone: handleBotConnection and its handlers
NextWorkers ==
  \/ \E w \in WsIds : BotConnect(w)
  \/ \E w \in WsIds : BotMessage(w)
  \/ \E w \in WsIds : BotError(w)
  \/ \E w \in WsIds : BotClose(w)
  \/ \E w \in WsIds : WsTransport(w)

SpecWorkers == Init /\ [][NextWorkers]_vars



(***************************************************************************)
(* The whole exported ConnectionManager: the admin side and the worker     *)
(* side called in any order, over transports that fail at any time.        *)
(***************************************************************************)
MaxApiSocks == 2

\* The admin transports handed to addAdmin
ApiSockIds == (1..MaxApiSocks) \X {1}

InitManager ==
  /\ variant = "registry"
  /\ manager = NewManager
  /\ socks = [s \in ApiSockIds |-> NewSock]
  /\ wss = [w \in WsIds |-> NewWs]
  /\ admin = [c \in AdminIds |-> NewAdmin]
  /\ bot = [w \in WsIds |-> NewBot]
  /\ crashed = FALSE
  /\ returned = <<>>
  /\ ev = [op |-> "init"]

NextManager ==
  \/ \E s \in ApiSockIds : ApiAddAdmin(s)
  \/ \E s \in ApiSockIds : ApiRemoveAdmin(s)
  \/ ApiBroadcastToAdmins
  \/ \E s \in ApiSockIds : SockChange(s)
  \/ \E w \in WsIds : ApiAddBot(w)
  \/ \E n \in 1..(MaxBotId + 1) : ApiRemoveBot(BotIdOf(n))
  \/ ApiBroadcastToBots
  \/ \E n \in 1..(MaxBotId + 1) : ApiSendToBot(BotIdOf(n))
  \/ ApiGetStats
  \/ \E w \in WsIds : WsChange(w)

SpecManager == InitManager /\ [][NextManager]_vars

\* The admin side of the manager
NextAdmins ==
  \/ \E s \in ApiSockIds : ApiAddAdmin(s)
  \/ \E s \in ApiSockIds : ApiRemoveAdmin(s)
  \/ ApiBroadcastToAdmins
  \/ \E s \in ApiSockIds : SockChange(s)
  \/ ApiGetStats

SpecAdmins == InitManager /\ [][NextAdmins]_vars



(***************************************************************************)
(* Properties.  Each is stated over the history variables returned and ev  *)
(* and the state after the event.                                          *)
(***************************************************************************)

\* Number.parseInt of a run of decimal digits
RECURSIVE ParseDecimal(_)
ParseDecimal(s) ==
  IF s = <<>> THEN 0
  ELSE 10 * ParseDecimal(SubSeq(s, 1, Len(s) - 1)) + (CharCode(s[Len(s)]) - 48)

\* The n of an id bot_<n>; 0 when the text is no such id
IdNumber(id) ==
  IF StartsWith(id, S_bot_) /\ Len(id) > Len(S_bot_)
     /\ \A i \in (Len(S_bot_) + 1)..Len(id) : CharCode(id[i]) \in 48..57
  THEN ParseDecimal(SubSeq(id, Len(S_bot_) + 1, Len(id)))
  ELSE 0

\* The positions of a worker map whose transport is open, is open with a send
\* that raises, and is not open
OpenAt(map, ws) == {i \in 1..Len(map) : ws[map[i].val].readyState = 1}
ThrowsAt(map, ws) == {i \in OpenAt(map, ws) : ws[map[i].val].sendThrows}
NotOpenAt(map, ws) == (1..Len(map)) \ OpenAt(map, ws)
KeysAt(map, idx) == {map[i].key : i \in idx}
KeySet(map) == KeysAt(map, 1..Len(map))

\* C1: the ids addBot returns are bot_<n> with n = 1, 2, 3, ... strictly
\* increasing, none is returned twice (also after its entry was removed or
\* pruned), and every key of the worker map is an id addBot returned.
C1_AddBotIds ==
  /\ \A i \in 1..Len(returned) : IdNumber(returned[i]) >= 1
  /\ Len(returned) >= 1 => IdNumber(returned[1]) = 1
  /\ \A i, j \in 1..Len(returned) :
       i < j => IdNumber(returned[i]) < IdNumber(returned[j]) /\ returned[i] # returned[j]
  /\ \A k \in KeySet(manager.botConnections) : \E i \in 1..Len(returned) : returned[i] = k

\* C1 witness: addBot has just returned an id after an earlier id left the map
C1_Witness ==
  /\ ev.op = "addBot"
  /\ Len(returned) >= 2
  /\ ~MapHas(manager.botConnections, returned[1])
  /\ MapHas(manager.botConnections, returned[Len(returned)])

\* C5 as claimed: broadcastToBots on N open and M not-open workers makes exactly
\* N sends, one per open worker, removes exactly the M not-open entries and
\* leaves the worker count reduced by exactly M.
C5_BroadcastExactlyNotOpenPruned ==
  ev.op = "broadcastToBots" =>
    LET map == ev.pre.botConnections
    IN  /\ Len(ev.out) = Cardinality(OpenAt(map, wss))
        /\ \A w \in WsIds :
             Cardinality({i \in 1..Len(ev.out) : ev.out[i].to = w})
               = Cardinality({i \in OpenAt(map, wss) : map[i].val = w})
        /\ KeySet(manager.botConnections) = KeySet(map) \ KeysAt(map, NotOpenAt(map, wss))
        /\ Len(manager.botConnections) = Len(map) - Cardinality(NotOpenAt(map, wss))

\* C5 amended: broadcastToBots calls send exactly once for each open worker, in
\* map order, and for no other; it removes exactly the not-open entries and the
\* open entries whose send raised, so the count drops by M plus the number of
\* raising sends (by exactly M when no send raises); the entries kept keep
\* their order, and the admin set and the id counter are untouched.
C5_BroadcastPrunesNotOpenAndThrowing ==
  ev.op = "broadcastToBots" =>
    LET map == ev.pre.botConnections
        gone == NotOpenAt(map, wss) \cup ThrowsAt(map, wss)
    IN  /\ Len(ev.out) = Cardinality(OpenAt(map, wss))
        /\ \A w \in WsIds :
             Cardinality({i \in 1..Len(ev.out) : ev.out[i].to = w})
               = Cardinality({i \in OpenAt(map, wss) : map[i].val = w})
        /\ \A i \in 1..Len(ev.out) :
             /\ ev.out[i].call = "send" /\ ev.out[i].data = ev.arg
             /\ ev.out[i].threw = wss[ev.out[i].to].sendThrows
        /\ manager.botConnections = SelectSeq(map, LAMBDA e : e.key \notin KeysAt(map, gone))
        /\ Len(manager.botConnections)
             = Len(map) - Cardinality(NotOpenAt(map, wss)) - Cardinality(ThrowsAt(map, wss))
        /\ manager.adminConnections = ev.pre.adminConnections
        /\ manager.botIdCounter = ev.pre.botIdCounter

\* C5 witness: a broadcast over a map with an open worker whose send succeeds
\* and a worker that is not open
C5_Witness ==
  /\ ev.op = "broadcastToBots"
  /\ OpenAt(ev.pre.botConnections, wss) \ ThrowsAt(ev.pre.botConnections, wss) # {}
  /\ NotOpenAt(ev.pre.botConnections, wss) # {}
  /\ \E i \in 1..Len(ev.out) : ~ev.out[i].threw

\* C6: sendToBot(id, envelope) returns false and leaves the manager unchanged
\* when id is not a key; when the transport is not open or the send raises it
\* removes exactly that entry and returns false; when the transport is open and
\* the send succeeds it makes exactly one send, removes nothing, returns true.
C6_SendToBot ==
  ev.op = "sendToBot" =>
    LET map == ev.pre.botConnections
        botId == ev.arg
    IN  IF botId \notin KeySet(map)
        THEN ev.ret = FALSE /\ manager = ev.pre /\ ev.out = <<>>
        ELSE LET w == MapGet(map, botId)
                 sent == {i \in 1..Len(ev.out) : ~ev.out[i].threw}
             IN  IF wss[w].readyState # 1 \/ wss[w].sendThrows
                 THEN /\ ev.ret = FALSE
                      /\ sent = {}
                      /\ KeySet(manager.botConnections) = KeySet(map) \ {botId}
                      /\ Len(manager.botConnections) = Len(map) - 1
                      /\ manager.adminConnections = ev.pre.adminConnections
                      /\ manager.botIdCounter = ev.pre.botIdCounter
                 ELSE /\ ev.ret = TRUE
                      /\ manager = ev.pre
                      /\ Len(ev.out) = 1 /\ sent = {1}
                      /\ ev.out[1].to = w /\ ev.out[1].data = ApiEnvelope

\* C6 witness: a send that raised on an open transport pruned the entry while
\* another entry stayed
C6_Witness ==
  /\ ev.op = "sendToBot"
  /\ Len(ev.out) = 1 /\ ev.out[1].threw
  /\ ev.ret = FALSE
  /\ Len(manager.botConnections) >= 1


(***************************************************************************)
(* Properties of the programs (Spec, SpecWorkers).                         *)
(***************************************************************************)
\* The calls of a sequence of transport calls made with websocket.send that
\* carry an envelope of the given type, and the texts written with socket.write
SendsOfType(out, type) == SelectSeq(out, LAMBDA x : x.call = "send" /\ x.data.type = type)
AllSends(out) == SelectSeq(out, LAMBDA x : x.call = "send")
AllWrites(out) == SelectSeq(out, LAMBDA x : x.call = "write")

\* C7: for every inbound worker message the handler sends an error envelope
\* if and only if the payload does not parse as JSON, and for a payload that
\* parses it sends exactly one ack envelope and no error envelope.
C7_ErrorIffParseFails ==
  ev.op = "botMessage" =>
    LET parses == JsonParse(ev.arg).ok
        errors == Len(SendsOfType(ev.out, "error"))
        acks == Len(SendsOfType(ev.out, "ack"))
    IN  /\ (errors > 0) <=> ~parses
        /\ parses => acks = 1 /\ errors = 0

\* C2: an admin connection whose credential did not match is not a member of
\* the admin set, whatever it sends afterwards.
C2_FailedNeverAdmin ==
  \A c \in AdminIds :
    admin[c].failed > 0 =>
      /\ ~admin[c].isAuthenticated
      /\ \A k \in ShellIds : ~SetHas(manager.adminConnections, <<c, k>>)


\* params as the claim describes it: the field names in order with the lines
ExpectedParams(lines) == [i \in 1..Len(lines) |-> [key |-> paramOrder[i], val |-> lines[i]]]

Recipients(out) == [j \in 1..Len(AllSends(out)) |-> AllSends(out)[j].to]

IsTrigger(st) == ~st.modeBefore /\ ToLower(st.command) = S_attack
IsFieldLine(st) == st.modeBefore /\ st.command # <<>> /\ st.branch # "interrupt"

\* C3: after the attack trigger in Idle, the first 8 non-empty lines are stored
\* under the field names in order and nothing is sent; the 9th yields exactly
\* one broadcast, of an envelope of type attack whose params are exactly the 9
\* field names HOST .. RANDOM-PATH mapped to the 9 lines in that order, and the
\* session is Idle afterwards, so the next line is a command and not a 10th
\* parameter.  No attack envelope is sent in any other situation.
C3_NineLinesOneAttack ==
  ev.op = "adminData" =>
    /\ \A i \in 1..Len(ev.steps) :
         LET st == ev.steps[i]
         IN  /\ IsTrigger(st) =>
                  st.modeAfter /\ st.entered = <<>> /\ st.paramsAfter = <<>>
                    /\ AllSends(st.out) = <<>>
             /\ IsFieldLine(st) =>
                  /\ Len(st.entered) <= Len(paramOrder)
                  /\ Len(st.entered) < Len(paramOrder) =>
                       /\ st.modeAfter
                       /\ st.paramsAfter = ExpectedParams(st.entered)
                       /\ AllSends(st.out) = <<>>
                       /\ st.post = st.pre
                  /\ Len(st.entered) = Len(paramOrder) =>
                       LET r == broadcastToBots(st.pre, wss, Envelope("attack", <<>>))
                       IN  /\ ~st.modeAfter
                           /\ st.paramsAfter = <<>>
                           /\ Recipients(st.out) = Recipients(r.out)
                           /\ st.post = r.m
                           /\ \A j \in 1..Len(AllSends(st.out)) :
                                /\ AllSends(st.out)[j].data.type = "attack"
                                /\ AllSends(st.out)[j].data.params = ExpectedParams(st.entered)
                           /\ i < Len(ev.steps) => ~ev.steps[i + 1].modeBefore
             /\ SendsOfType(st.out, "attack") # <<>> =>
                  IsFieldLine(st) /\ Len(st.entered) = Len(paramOrder)
    /\ Len(ev.steps) > 0 =>
         admin[ev.arg.c].attackMode = ev.steps[Len(ev.steps)].modeAfter

\* a 9th line was stored and the attack envelope went to a worker
C3_Witness ==
  /\ ev.op = "adminData"
  /\ \E i \in 1..Len(ev.steps) :
       /\ IsFieldLine(ev.steps[i])
       /\ Len(ev.steps[i].entered) = Len(paramOrder)
       /\ SendsOfType(ev.steps[i].out, "attack") # <<>>

\* C4: in the SSH console the byte 3, handled while parameters are collected,
\* empties the parameter set and returns the session to Idle without sending
\* anything; an attack trigger starts from the empty set at field HOST; and no
\* attack envelope carries a value stored before the most recent interrupt.
C4_InterruptDiscards ==
  /\ \A c \in AdminIds : admin[c].stale = {}
  /\ ev.op = "adminData" =>
       \A i \in 1..Len(ev.steps) :
         LET st == ev.steps[i]
         IN  /\ st.branch = "interrupt" =>
                  /\ st.modeBefore /\ ~st.modeAfter
                  /\ st.paramsAfter = <<>> /\ st.currentParamAfter = ""
                  /\ AllSends(st.out) = <<>> /\ st.post = st.pre
                  /\ i < Len(ev.steps) => ~ev.steps[i + 1].modeBefore
             /\ IsTrigger(st) =>
                  st.modeAfter /\ st.paramsAfter = <<>> /\ st.currentParamAfter = "HOST"
             /\ SendsOfType(st.out, "attack") # <<>> => st.stale \ {st.currentParam} = {}

\* an interrupt byte was handled while some values were stored, and the same
\* data event went on to another line
C4_Witness ==
  /\ ev.op = "adminData"
  /\ \E i \in 1..Len(ev.steps) :
       /\ ev.steps[i].branch = "interrupt"
       /\ ev.steps[i].params # <<>>
       /\ i < Len(ev.steps)


\* A line handled as a command: taken from Idle, not empty
IsCommand(st) == ~st.modeBefore /\ st.command # <<>>

\* The first word of a command, in lower case
CommandWord(command) == ToLower(Split(command)[1])

\* The command words of each console
CommandWords(v) ==
  CASE v = "telnet" -> {S_quit, S_help, S_list, S_stats, <<"b", "r", "o", "a", "d", "c", "a", "s", "t">>, <<"s", "e", "n", "d">>}
    [] v = "telnetAttack" -> {S_attack, S_help, S_bots, S_list, S_stats}
    [] v = "ssh" -> {S_attack, S_help, S_bots, S_list, S_stats, S_stopall, <<"s", "t", "o", "p">>}

\* A command that takes arguments and has too few: send with fewer than an id
\* and a word, broadcast without text (telnet console), stop without a command
\* string (SSH console)
MissingArgument(v, command) ==
  \/ v = "telnet" /\ CommandWord(command) = <<"s", "e", "n", "d">> /\ Len(Split(command)) < 3
  \/ v = "telnet" /\ CommandWord(command) = <<"b", "r", "o", "a", "d", "c", "a", "s", "t">> /\ Len(Split(command)) = 1
  \/ v = "ssh" /\ CommandWord(command) = <<"s", "t", "o", "p">> /\ Len(Split(command)) = 1

IsUsage(call) ==
  /\ call.call = "write"
  /\ call.data.t \in {"Usage: broadcast <message>", "Usage: send <bot_id> <message>",
                      "Usage: stop <command>"}

\* C8: a command entered without its arguments produces a usage message and
\* makes no registry call: nothing is sent to a worker and no worker is pruned.
C8_MissingArgumentUsage ==
  ev.op = "adminData" =>
    \A i \in 1..Len(ev.steps) :
      LET st == ev.steps[i]
      IN  (IsCommand(st) /\ MissingArgument(variant, st.command)) =>
            /\ \E j \in 1..Len(st.out) : IsUsage(st.out[j])
            /\ AllSends(st.out) = <<>>
            /\ st.post = st.pre

Unrecognized(v, command) == CommandWord(command) \notin CommandWords(v)

\* C9 as stated: an unrecognized command word entered in Idle is answered
\* locally and leaves the worker map, the admin set and the id counter as they
\* were.
C9_UnknownNoMutation ==
  ev.op = "adminData" =>
    \A i \in 1..Len(ev.steps) :
      LET st == ev.steps[i]
      IN  (IsCommand(st) /\ Unrecognized(variant, st.command)) =>
            /\ AllWrites(st.out) # <<>>
            /\ AllSends(st.out) = <<>>
            /\ st.post = st.pre

\* C9, corrected: an unrecognized command word entered in Idle is answered to
\* the operator and leaves the admin set and the id counter as they were.  In
\* the telnet console of src/server.js nothing is sent and the worker map is
\* unchanged; in part_000 and in the SSH console the line is forwarded to the
\* workers as one broadcast of an envelope of type message, and the worker map
\* is the map before the command less the workers that broadcast pruned.
C9_UnknownForwardedOrLocal ==
  ev.op = "adminData" =>
    \A i \in 1..Len(ev.steps) :
      LET st == ev.steps[i]
      IN  (IsCommand(st) /\ Unrecognized(variant, st.command)) =>
            /\ AllWrites(st.out) # <<>>
            /\ st.post.adminConnections = st.pre.adminConnections
            /\ st.post.botIdCounter = st.pre.botIdCounter
            /\ IF variant = "telnet"
               THEN AllSends(st.out) = <<>> /\ st.post = st.pre
               ELSE LET r == broadcastToBots(st.pre, wss, Envelope("message", st.command))
                    IN  AllSends(st.out) = AllSends(r.out) /\ st.post = r.m

\* an unrecognized command was forwarded: a worker received it, or was pruned
C9_Witness ==
  /\ ev.op = "adminData"
  /\ \E i \in 1..Len(ev.steps) :
       /\ IsCommand(ev.steps[i])
       /\ Unrecognized(variant, ev.steps[i].command)
       /\ AllSends(ev.steps[i].out) # <<>>

\* C10: after every command dispatched from Idle that leaves the session in
\* Idle the last thing written for it is the prompt admin> ; a command that
\* closes the session writes no prompt.
C10_PromptLast ==
  ev.op = "adminData" =>
    \A i \in 1..Len(ev.steps) :
      LET st == ev.steps[i]
          IsPrompt(call) == call.call = "write" /\ call.data.t = "admin> "
      IN  (IsCommand(st) /\ ~st.modeAfter) =>
            IF st.end THEN \A j \in 1..Len(st.out) : ~IsPrompt(st.out[j])
            ELSE st.out # <<>> /\ IsPrompt(st.out[Len(st.out)])


\* p occurs in s as a run of consecutive characters
Contains(s, p) ==
  \E i \in 0..(Len(s) - Len(p)) : SubSeq(s, i + 1, i + Len(p)) = p

\* The flag under which the attackCommand template names each field, without
\* its leading dashes (one in the SSH console, two in part_000)
FlagOf ==
  [name \in {paramOrder[i] : i \in 1..Len(paramOrder)} |->
     CASE name = "HOST" -> <<"-", "u", "r", "l", " ">>
       [] name = "TIME" -> <<"-", "d", "u", "r", "a", "t", "i", "o", "n", " ">>
       [] name = "CONCURRENCY" -> <<"-", "c", "o", "n", "c", "u", "r", "r", "e", "n", "c", "y", " ">>
       [] name = "HTTP-METHOD" -> <<"-", "h", "t", "t", "p", "-", "m", "e", "t", "h", "o", "d", " ">>
       [] name = "ADAPTIVE-DELAY" -> <<"-", "a", "d", "a", "p", "t", "i", "v", "e", "-", "d", "e", "l", "a", "y", " ">>
       [] name = "JITTER" -> <<"-", "j", "i", "t", "t", "e", "r", " ">>
       [] name = "HTTP-PROTOCOL" -> <<"-", "h", "t", "t", "p", "-", "p", "r", "o", "t", "o", "c", "o", "l", " ">>
       [] name = "BURST" -> <<"-", "b", "u", "r", "s", "t", "-", "s", "i", "z", "e", " ">>
       [] name = "RANDOM-PATH" -> <<"-", "r", "a", "n", "d", "o", "m", "-", "p", "a", "t", "h", " ">>]

\* C11: the message of every attack envelope embeds each of the 9 collected
\* fields: every value present in params appears in the message after its flag.
C11_MessageEmbedsAllFields ==
  ev.op = "adminData" =>
    \A i \in 1..Len(ev.steps) :
      \A j \in 1..Len(SendsOfType(ev.steps[i].out, "attack")) :
        LET envelope == SendsOfType(ev.steps[i].out, "attack")[j].data
        IN  /\ Len(envelope.params) = Len(paramOrder)
            /\ \A n \in 1..Len(envelope.params) :
                 Contains(envelope.message,
                          FlagOf[envelope.params[n].key] \o envelope.params[n].val)



(***************************************************************************)
(* Properties of the whole manager (SpecManager, SpecAdmins).              *)
(***************************************************************************)
\* The members of the admin set
AdminSet(m) == {m.adminConnections[i] : i \in 1..Len(m.adminConnections)}

\* C12: after any sequence of addAdmin, removeAdmin, addBot, removeBot,
\* broadcastToBots, broadcastToAdmins and sendToBot, getStats() reports admins
\* equal to the size of the admin set, bots equal to the size of the worker map,
\* and bot_ids with exactly one entry per key of the worker map; a call of
\* getStats returns that report and changes nothing.
C12_StatsMatchRegistry ==
  LET stats == getStats(manager)
      keys == KeySet(manager.botConnections)
  IN  /\ stats.admins = Cardinality(AdminSet(manager))
      /\ stats.bots = Cardinality(keys)
      /\ Len(stats.bot_ids) = Cardinality(keys)
      /\ \A k \in keys :
           Cardinality({i \in 1..Len(stats.bot_ids) : stats.bot_ids[i] = k}) = 1
      /\ \A i \in 1..Len(stats.bot_ids) : stats.bot_ids[i] \in keys
      /\ ev.op = "getStats" => ev.ret = stats /\ manager = ev.pre

\* getStats was called on a registry that holds an admin and a worker after
\* a worker had left it
C12_Witness ==
  /\ ev.op = "getStats"
  /\ ev.ret.admins >= 1
  /\ ev.ret.bots >= 1
  /\ ev.ret.bots < manager.botIdCounter

\* C13: broadcastToAdmins calls write once, in set order, on every admin of the
\* set whose transport is not destroyed, also after an admin that is destroyed
\* or whose write raises; the admins removed are exactly the destroyed ones and
\* the ones whose write raised, the others keep their order, and the worker
\* map and the id counter are untouched.
C13_BroadcastToAdminsFullPass ==
  ev.op = "broadcastToAdmins" =>
    LET set == ev.pre.adminConnections
        live == SelectSeq(set, LAMBDA s : ~socks[s].destroyed)
    IN  /\ Len(ev.out) = Len(live)
        /\ \A j \in 1..Len(live) :
             /\ ev.out[j].call = "write"
             /\ ev.out[j].to = live[j]
             /\ ev.out[j].data.s = ev.arg
             /\ ev.out[j].threw = socks[live[j]].writeThrows
        /\ manager.adminConnections
             = SelectSeq(set, LAMBDA s : ~socks[s].destroyed /\ ~socks[s].writeThrows)
        /\ manager.botConnections = ev.pre.botConnections
        /\ manager.botIdCounter = ev.pre.botIdCounter

\* a broadcast whose first admin failed and whose later admin was written to
\* and kept
C13_Witness ==
  /\ ev.op = "broadcastToAdmins"
  /\ Len(ev.pre.adminConnections) >= 2
  /\ \/ socks[ev.pre.adminConnections[1]].destroyed
     \/ socks[ev.pre.adminConnections[1]].writeThrows
  /\ \E j \in 1..Len(ev.out) : ~ev.out[j].threw /\ ev.out[j].to = ev.pre.adminConnections[2]
  /\ manager.adminConnections = <<ev.pre.adminConnections[2]>>

\* C20: addAdmin of a connection already in the admin set leaves the set and
\* its size unchanged and adds at most one member otherwise; removeAdmin of a
\* connection not in the set and removeBot of an id not in the worker map change
\* nothing and return normally; each of the three applied twice gives the
\* registry that applying it once gives.
C20_AddRemoveIdempotent ==
  /\ \A s \in DOMAIN socks :
       LET added == addAdmin(manager, s).m
           removed == removeAdmin(manager, s).m
       IN  /\ addAdmin(added, s).m = added
           /\ SetHas(manager.adminConnections, s) => added = manager
           /\ Len(added.adminConnections) <= Len(manager.adminConnections) + 1
           /\ SetHas(added.adminConnections, s)
           /\ removeAdmin(removed, s).m = removed
           /\ ~SetHas(manager.adminConnections, s) => removed = manager
           /\ ~SetHas(removed.adminConnections, s)
  /\ \A n \in 1..(MaxBotId + 1) :
       LET removed == removeBot(manager, BotIdOf(n))
       IN  /\ removeBot(removed.m, BotIdOf(n)).m = removed.m
           /\ removed.ret = "undefined"
           /\ ~MapHas(manager.botConnections, BotIdOf(n)) => removed.m = manager
           /\ ~MapHas(removed.m.botConnections, BotIdOf(n))
  /\ ev.op = "addAdmin" => (SetHas(ev.pre.adminConnections, ev.arg) => manager = ev.pre)
  /\ ev.op = "removeAdmin" => (~SetHas(ev.pre.adminConnections, ev.arg) => manager = ev.pre)
  /\ ev.op = "removeBot" => (~MapHas(ev.pre.botConnections, ev.arg) => manager = ev.pre)

\* addAdmin was called for a connection that was in the set, next to another
\* admin and a worker
C20_Witness ==
  /\ ev.op = "addAdmin"
  /\ SetHas(ev.pre.adminConnections, ev.arg)
  /\ Len(manager.adminConnections) >= 2
  /\ Len(manager.botConnections) >= 1


\* C14: one broadcastToBots pass calls send at most once for each entry of the
\* worker map (once for each entry whose transport is open, in map order); a
\* send that raises does not end the pass: the open entries after it still get
\* the envelope, the entry whose send raised is pruned, the entries that got
\* the envelope stay, and the call returns normally.
C14_ThrowNotPropagated ==
  ev.op = "broadcastToBots" =>
    LET open == SelectSeq(ev.pre.botConnections, LAMBDA e : wss[e.val].readyState = 1)
    IN  /\ Len(ev.out) = Len(open)
        /\ \A j \in 1..Len(open) :
             /\ ev.out[j].call = "send"
             /\ ev.out[j].to = open[j].val
             /\ ev.out[j].data = ev.arg
             /\ ev.out[j].threw <=> ~MapHas(manager.botConnections, open[j].key)
        /\ ev.ret = "undefined"
        /\ ~crashed

\* the send of the first entry raised and a later entry got the envelope
C14_Witness ==
  /\ ev.op = "broadcastToBots"
  /\ Len(ev.out) >= 2
  /\ ev.out[1].threw
  /\ ~ev.out[Len(ev.out)].threw
  /\ ~MapHas(manager.botConnections, ev.pre.botConnections[1].key)
  /\ Len(manager.botConnections) >= 1


\* A line that is empty after trimming, taken while parameters are collected
IsEmptyFieldLine(st) == st.modeBefore /\ st.command = <<>> /\ st.branch = "empty"

\* C15: an empty line received while parameters are collected writes the prompt
\* of the current field again and changes nothing: the session still collects,
\* the current field, the values stored so far and the registry are as before,
\* and nothing is sent to a worker.
C15_EmptyLineReprompts ==
  ev.op = "adminData" =>
    \A i \in 1..Len(ev.steps) :
      LET st == ev.steps[i]
      IN  /\ (st.modeBefore /\ st.command = <<>> /\ st.branch # "interrupt") =>
                IsEmptyFieldLine(st)
          /\ IsEmptyFieldLine(st) =>
               /\ st.modeAfter
               /\ st.currentParamAfter = st.currentParam
               /\ st.paramsAfter = st.params
               /\ st.post = st.pre
               /\ AllSends(st.out) = <<>>
               /\ st.out # <<>>
               /\ st.out[Len(st.out)].data.t = "<param>> "
               /\ st.out[Len(st.out)].data.p = st.currentParam
               /\ \A j \in 1..(Len(st.out) - 1) : st.out[j].data.t = "\r\n"
               /\ i < Len(ev.steps) =>
                    /\ ev.steps[i + 1].modeBefore
                    /\ ev.steps[i + 1].params = st.params
                    /\ ev.steps[i + 1].currentParam = st.currentParam

\* an empty line came after a value had been stored
C15_Witness ==
  /\ ev.op = "adminData"
  /\ \E i \in 1..Len(ev.steps) :
       /\ IsEmptyFieldLine(ev.steps[i])
       /\ ev.steps[i].params # <<>>
       /\ admin[ev.arg.c].attackParams = ev.steps[i].params


\* The newline-terminated lines of a received text, in order, each without its
\* trailing carriage return and trimmed; what follows the last newline is no line
RECURSIVE LinesOf(_)
LinesOf(s) ==
  IF IndexOf(s, "\n") = -1 THEN <<>>
  ELSE <<Trim(StripCR(Substring(s, 0, IndexOf(s, "\n"))))>>
         \o LinesOf(SubstringFrom(s, IndexOf(s, "\n") + 1))

\* The lines a telnet data event completes: the text kept from earlier chunks
\* followed by the chunk.  Argument a is the handler's state before the event
CompletedLines(a, data) ==
  LinesOf((IF a.isAuthenticated THEN a.buffer[1] ELSE a.passwordBuffer) \o data)

\* C16: every newline-terminated line received on a telnet admin connection
\* yields exactly one completed line, and the completed lines are processed in
\* arrival order: the first line of a connection that is not authenticated is
\* taken as the credential, every other line is handled as a command; this
\* holds when several lines arrive in one chunk, the chunk with the credential
\* included, and when a line is split over chunks.  (The lines behind a quit
\* command or behind a rejected credential belong to a session that is ending
\* and are left out.)
C16_EveryLineProcessed ==
  [][(ev'.op = "adminData" /\ variant \in Telnets) =>
       LET a == admin[ev'.arg.c]
           lines == CompletedLines(a, ev'.arg.data)
           credential == IF a.isAuthenticated \/ lines = <<>> THEN <<>> ELSE <<lines[1]>>
           processed == credential \o [i \in 1..Len(ev'.steps) |-> ev'.steps[i].command]
           ending == \/ socks'[<<ev'.arg.c, 1>>].ended
       IN  /\ Len(processed) <= Len(lines)
           /\ processed = SubSeq(lines, 1, Len(processed))
           /\ ~ending => processed = lines]_vars


(***************************************************************************)
(* Properties of the worker connections (SpecWorkers, Spec).               *)
(***************************************************************************)
\* C17: once the close event or the error event of a worker transport has been
\* handled, the id of that worker is not a key of the worker map: not after the
\* handler, and for a closed transport not in any later state.
C17_ClosedOrErroredAbsent ==
  /\ \A w \in WsIds :
       bot[w].st = "closed" => ~MapHas(manager.botConnections, bot[w].botId)
  /\ ev.op \in {"botClose", "botError"} =>
       ~MapHas(manager.botConnections, bot[ev.arg].botId)

\* The events that record the transport calls they made
HasCalls(e) == e.op \notin {"init", "wsTransport", "wsChange", "sockChange"}

\* C18: handleBotConnection makes one send, the first call it makes, of the
\* welcome envelope, whose bot_id is the id addBot returned; when the send does
\* not raise, the worker map holds the transport under that id.  An envelope of
\* another type goes only to a transport whose handleBotConnection has run and
\* whose welcome was sent.
C18_WelcomeFirst ==
  /\ ev.op = "botConnect" =>
       /\ Len(AllSends(ev.out)) = 1
       /\ ev.out[1].call = "send"
       /\ ev.out[1].to = ev.arg
       /\ ev.out[1].data.type = "welcome"
       /\ ev.out[1].data.bot_id = ev.ret
       /\ ev.ret = bot[ev.arg].botId
       /\ ~ev.out[1].threw =>
            /\ MapHas(manager.botConnections, ev.ret)
            /\ MapGet(manager.botConnections, ev.ret) = ev.arg
            /\ bot[ev.arg].st = "live"
       /\ ev.out[1].threw =>
            ~MapHas(manager.botConnections, ev.ret) /\ bot[ev.arg].st = "dead"
  /\ (HasCalls(ev) /\ ev.op # "botConnect") =>
       \A j \in 1..Len(ev.out) :
         ev.out[j].call = "send" =>
           /\ ev.out[j].data.type # "welcome"
           /\ bot[ev.out[j].to].st = "live"
  /\ \A i \in 1..Len(manager.botConnections) :
       /\ bot[manager.botConnections[i].val].st = "live"
       /\ bot[manager.botConnections[i].val].botId = manager.botConnections[i].key

\* a worker that got its welcome is sent a line an admin typed
C18_Witness ==
  /\ ev.op = "adminData"
  /\ \E j \in 1..Len(ev.out) :
       /\ ev.out[j].call = "send"
       /\ ~ev.out[j].threw
       /\ bot[ev.out[j].to].st = "live"
       /\ MapHas(manager.botConnections, bot[ev.out[j].to].botId)

\* A message event whose payload did not parse and whose error envelope was sent
MalformedAnswered(e) ==
  /\ e.op = "botMessage"
  /\ ~JsonParse(e.arg).ok
  /\ \E j \in 1..Len(e.out) :
       e.out[j].call = "send" /\ e.out[j].data.type = "error" /\ ~e.out[j].threw

\* C19: after a payload that does not parse was answered with the error
\* envelope, the registry is as before the message, so the worker is in the
\* worker map under the same id; the server has not closed the transport; and
\* the message handler still runs for the next message of that worker.
C19_MalformedNotFatal ==
  MalformedAnswered(ev) =>
    /\ manager = ev.pre
    /\ MapHas(manager.botConnections, bot[ev.ret].botId)
    /\ MapGet(manager.botConnections, bot[ev.ret].botId) = ev.ret
    /\ wss[ev.ret].readyState = 1
    /\ bot[ev.ret].st = "live"
    /\ ~crashed
    /\ Len(AllSends(ev.out)) = 1
    /\ ENABLED BotMessage(ev.ret)

\* a malformed payload was answered while another worker was connected
C19_Witness ==
  /\ MalformedAnswered(ev)
  /\ Len(manager.botConnections) >= 2


(***************************************************************************)
(* Properties of the admin sessions (Spec).                                *)
(***************************************************************************)
\* The texts that confirm a broadcast with a worker count
Confirmations ==
  {"Attack command sent to <n> bots!", "Sent to <n> bots", "Stop command sent to <n> bots",
   "Broadcasted to <n> bots", "Command sent to <n> bots: <shellCommand>"}

IsConfirmation(call) == call.call = "write" /\ call.data.t \in Confirmations

\* C21: the worker count written in the confirmation that follows a broadcast
\* equals the number of workers the envelope was sent to in that broadcast (the
\* send calls of the line that did not raise); a line that broadcasts writes
\* exactly one confirmation, after the sends (send <bot_id> is no broadcast and
\* writes no count).
C21_ConfirmationCountsSent ==
  ev.op = "adminData" =>
    \A i \in 1..Len(ev.steps) :
      LET st == ev.steps[i]
          sent == {j \in 1..Len(st.out) : st.out[j].call = "send" /\ ~st.out[j].threw}
          confirmed == {j \in 1..Len(st.out) : IsConfirmation(st.out[j])}
      IN  /\ \A j \in confirmed :
               /\ st.out[j].data.n = Cardinality(sent)
               /\ \A k \in 1..Len(st.out) : st.out[k].call = "send" => k < j
          /\ Cardinality(confirmed) <= 1
          /\ (AllSends(st.out) # <<>> /\ st.branch # "send") => confirmed # {}
          /\ st.branch \in {"paramLast", "fallback", "stopall", "stop", "broadcast"}
               => confirmed # {}

\* a confirmation was written after a broadcast whose send raised: the worker
\* was counted before the broadcast and is not counted in the confirmation
C21_Witness ==
  /\ ev.op = "adminData"
  /\ \E i \in 1..Len(ev.steps) :
       /\ \E j \in 1..Len(ev.steps[i].out) :
            IsConfirmation(ev.steps[i].out[j]) /\ ev.steps[i].out[j].data.n = 0
       /\ \E j \in 1..Len(ev.steps[i].out) :
            ev.steps[i].out[j].call = "send" /\ ev.steps[i].out[j].threw
       /\ Len(ev.steps[i].pre.botConnections) = 1


\* C22: getStats().bot_ids lists the ids of the workers in the map, each once,
\* in registration order: in the order addBot returned them, which is ascending
\* id number; this holds after any sequence of addBot, removeBot and pruning by
\* broadcastToBots or sendToBot.
C22_BotIdsInRegistrationOrder ==
  LET ids == getStats(manager).bot_ids
  IN  /\ \A i, j \in 1..Len(ids) : i < j => IdNumber(ids[i]) < IdNumber(ids[j])
      /\ \A i \in 1..Len(ids) : IdNumber(ids[i]) >= 1
      /\ ids = SelectSeq(returned, LAMBDA id : MapHas(manager.botConnections, id))
      /\ ev.op = "getStats" => ev.ret.bot_ids = ids

\* getStats was called after the second of three workers had left the map
C22_Witness ==
  /\ ev.op = "getStats"
  /\ ev.ret.bot_ids = <<BotIdOf(1), BotIdOf(3)>>


\* C23: after the close event of an admin transport has been handled, that
\* transport is not a member of the admin set, and no transport that is still
\* open is removed by it; this holds for every interleaving of opens and closes,
\* several shell streams opened on one SSH client connection included.
C23_CloseRemovesThatTransport ==
  /\ \A s \in SockIds : socks[s].st = "closed" => ~SetHas(manager.adminConnections, s)
  /\ ev.op = "adminClose" =>
       /\ ~SetHas(manager.adminConnections, <<ev.arg.c, ev.arg.k>>)
       /\ \A s \in SockIds :
            (SetHas(ev.pre.adminConnections, s) /\ socks[s].st = "open")
              => SetHas(manager.adminConnections, s)


\* C24: Closed is terminal for an admin session of the telnet console: quit ends
\* the data event in which it is processed, and once quit has been processed on
\* a connection no later data event of that connection handles a line, writes a
\* response, or changes the registry.  (The connection was ended and no
\* credential of it was rejected: it was ended by quit.)
C24_QuitIsTerminal ==
  [][(ev'.op = "adminData" /\ variant = "telnet") =>
       /\ \A i \in 1..Len(ev'.steps) : ev'.steps[i].branch = "quit" => i = Len(ev'.steps)
       /\ (socks[<<ev'.arg.c, 1>>].ended /\ admin[ev'.arg.c].failed = 0) =>
            /\ ev'.steps = <<>>
            /\ ev'.out = <<>>
            /\ manager' = manager]_vars


\* The texts written to a connection that has not authenticated, or that
\* authenticates with this input
GateTexts ==
  {"Authentication successful!", "Authentication failed. Disconnecting...", "<clear>",
   "welcome", "admin> "}

\* C25: authentication gates every command.  A data event on a telnet
\* connection that has not authenticated handles no line as a command, sends no
\* envelope, reports no registry read and leaves the worker map and the id
\* counter alone; the only change of the registry it can make is to add the
\* connection itself, and then the input held the credential.  A rejected SSH
\* authentication request changes nothing, and a shell is opened and data is
\* handled only on a client that authenticated.  A connection is in the admin
\* set only if it authenticated.
C25_AuthenticationGates ==
  [][/\ (ev'.op = "adminData" /\ variant \in Telnets /\ ~admin[ev'.arg.c].isAuthenticated) =>
          /\ ev'.steps = <<>>
          /\ \A j \in 1..Len(ev'.out) :
               ev'.out[j].call = "write" /\ ev'.out[j].data.t \in GateTexts
          /\ manager'.botConnections = manager.botConnections
          /\ manager'.botIdCounter = manager.botIdCounter
          /\ manager'.adminConnections
               = IF admin'[ev'.arg.c].isAuthenticated
                 THEN SetAdd(manager.adminConnections, <<ev'.arg.c, 1>>)
                 ELSE manager.adminConnections
          /\ admin'[ev'.arg.c].isAuthenticated =>
               Contains(admin[ev'.arg.c].passwordBuffer \o ev'.arg.data, ADMIN_PASSWORD)
     /\ (ev'.op = "sshAuthentication" /\ ev'.ret = "reject") =>
          manager' = manager /\ ev'.out = <<>> /\ ~admin'[ev'.arg.c].isAuthenticated
     /\ (ev'.op \in {"sshShell", "adminData"} /\ variant = "ssh") =>
          admin[ev'.arg.c].isAuthenticated
     /\ \A s \in SockIds :
          SetHas(manager'.adminConnections, s) => admin'[s[1]].isAuthenticated]_vars

\* a connection that has not authenticated sent a command while a worker was
\* connected, and is not authenticated after it
C25_Witness ==
  /\ ev.op = "adminData"
  /\ variant \in Telnets
  /\ ev.arg.data \in {<<"b", "r", "o", "a", "d", "c", "a", "s", "t", " ", "h", "i", "\n">>, <<"h", "i", "\n">>}
  /\ ~admin[ev.arg.c].isAuthenticated
  /\ Len(manager.botConnections) >= 1


\* The values of a parameter set under the names other than name
OtherParams(params, name) == SelectSeq(params, LAMBDA e : e.key # name)

\* C26: while parameters are collected, each non-empty completed line is stored
\* as the value of the current field, whatever it says (a command word
\* included), and moves the current field on by exactly one position of the
\* fixed order; nothing is dispatched for it, so between the trigger and the
\* attack envelope that session broadcasts no other envelope: the only sends of
\* a line taken while collecting are those of the attack envelope, made for the
\* line stored under the last field.
C26_LineStoredFieldAdvances ==
  ev.op = "adminData" =>
    \A i \in 1..Len(ev.steps) :
      LET st == ev.steps[i]
      IN  /\ st.modeBefore => \A j \in 1..Len(st.out) :
               st.out[j].call = "send" =>
                 st.out[j].data.type = "attack" /\ st.currentParam = paramOrder[Len(paramOrder)]
          /\ IsFieldLine(st) =>
               /\ st.branch \in {"param", "paramLast"}
               /\ ParamIndex(st.currentParam) \in 0..(Len(paramOrder) - 1)
               /\ st.branch = "param" =>
                    /\ ParamIndex(st.currentParam) < Len(paramOrder) - 1
                    /\ st.modeAfter
                    /\ ParamIndex(st.currentParamAfter) = ParamIndex(st.currentParam) + 1
                    /\ MapHas(st.paramsAfter, st.currentParam)
                    /\ MapGet(st.paramsAfter, st.currentParam) = st.command
                    /\ OtherParams(st.paramsAfter, st.currentParam)
                         = OtherParams(st.params, st.currentParam)
                    /\ AllSends(st.out) = <<>>
                    /\ st.post = st.pre
                    /\ \A j \in 1..Len(st.out) :
                         st.out[j].data.t \in {"\r\n", "<param>> "}
               /\ st.branch = "paramLast" =>
                    /\ ParamIndex(st.currentParam) = Len(paramOrder) - 1
                    /\ ~st.modeAfter
                    /\ \A j \in 1..Len(AllSends(st.out)) :
                         LET params == AllSends(st.out)[j].data.params
                         IN  /\ MapHas(params, st.currentParam)
                             /\ MapGet(params, st.currentParam) = st.command
                             /\ OtherParams(params, st.currentParam)
                                  = OtherParams(st.params, st.currentParam)

\* a command word was typed while a field was collected and became its value
C26_Witness ==
  /\ ev.op = "adminData"
  /\ \E i \in 1..Len(ev.steps) :
       /\ IsFieldLine(ev.steps[i])
       /\ ToLower(ev.steps[i].command) \in {S_list, S_stopall}
       /\ ev.steps[i].branch = "param"
       /\ Len(ev.steps[i].pre.botConnections) >= 1
       /\ admin[ev.arg.c].attackParams = ev.steps[i].paramsAfter


\* C27: between the events of an admin session the collection state is
\* consistent: while attackMode is set, currentParam is one of the 9 field
\* names and the keys of attackParams are exactly the fields before it, in the
\* fixed order; while it is not set, attackParams is empty and currentParam is
\* the empty string.
C27_CollectionStateConsistent ==
  \A c \in AdminIds :
    LET a == admin[c]
    IN  IF a.attackMode
        THEN /\ ParamIndex(a.currentParam) \in 0..(Len(paramOrder) - 1)
             /\ MapKeys(a.attackParams) = SubSeq(paramOrder, 1, ParamIndex(a.currentParam))
        ELSE a.attackParams = <<>> /\ a.currentParam = ""

\* two values are stored and the third field is current
C27_Witness ==
  \E c \in AdminIds :
    /\ admin[c].attackMode
    /\ Len(admin[c].attackParams) = 2
    /\ admin[c].currentParam = paramOrder[3]
    /\ ev.op = "adminData"


\* The completed lines of a chunk in keystroke-echo mode, a carriage return
\* followed by a newline ending one line
LineBreaks(data) ==
  Cardinality({i \in 1..Len(data) :
                 /\ data[i] \in {"\r", "\n"}
                 /\ ~(data[i] = "\n" /\ i > 1 /\ data[i - 1] = "\r")})

IsPromptText(call) == call.call = "write" /\ call.data.t \in {"admin> ", "<param>> "}

\* C28: in the SSH console a carriage return immediately followed by a newline
\* flushes the buffer as exactly one completed line, with one line-processing
\* step and one prompt, whether the two bytes arrive in one data chunk or the
\* carriage return ends one chunk and the newline starts the next chunk of the
\* same stream.
C28_CrLfOneLine ==
  [][(ev'.op = "adminData" /\ variant = "ssh") =>
       LET data == ev'.arg.data
           joined == /\ ev.op = "adminData"
                     /\ ev.arg.c = ev'.arg.c /\ ev.arg.k = ev'.arg.k
                     /\ ev.arg.data[Len(ev.arg.data)] = "\r"
                     /\ data[1] = "\n"
           lines == SelectSeq(ev'.steps, LAMBDA st : st.branch # "interrupt")
       IN  /\ Len(lines) = LineBreaks(data) - (IF joined THEN 1 ELSE 0)
           /\ \A i \in 1..Len(lines) :
                Cardinality({j \in 1..Len(lines[i].out) : IsPromptText(lines[i].out[j])}) = 1]_vars


\* The parameter-collection state that the input of an admin stream is
\* interpreted against
CollectionState(a) ==
  [attackMode |-> a.attackMode, currentParam |-> a.currentParam, attackParams |-> a.attackParams]

\* C29: the parameter-collection state belongs to one admin session: a data
\* event on one admin stream leaves unchanged the mode, the current field and
\* the collected values that the input of every other open admin stream is
\* interpreted against, two shell streams of one SSH client connection included.
C29_CollectionStatePerStream ==
  [][(ev'.op = "adminData") =>
       \A s \in SockIds :
         (s # <<ev'.arg.c, ev'.arg.k>> /\ socks[s].st = "open")
           => CollectionState(admin'[s[1]]) = CollectionState(admin[s[1]])]_vars


\* C30: the welcome banner and the first prompt that a timer writes after a
\* successful authentication are written to an admin transport that is open,
\* no close event of that transport having been handled, and they are written
\* before any response to a command line of that session.
C30_DelayedWelcomeOnOpenTransport ==
  [][/\ (ev'.op = "timer") => socks[<<ev'.arg.c, ev'.arg.k>>].st = "open"
     /\ (ev'.op = "adminData" /\ admin[ev'.arg.c].timers > 0 /\ admin[ev'.arg.c].shells <= 1) =>
          \A i \in 1..Len(ev'.steps) : ev'.steps[i].out = <<>>]_vars


\* The characters with a code from 32 to 126
IsPrintable(ch) == CharCode(ch) >= 32 /\ CharCode(ch) <= 126

\* The pass of the keystroke loop of shell k of client c for the one character
\* ch, from the current state
KeyPass(c, k, ch) ==
  SshChar(NewRun(admin[c], manager), wss, <<c, admin[c].stream>>, k, <<ch>>, 1)

\* What holds of the echoes of every data event of the SSH console: each
\* printable character of the chunk is echoed once, in order, and there are no
\* more erase sequences than backspaces
EchoesOfEvent ==
  (ev.op = "adminData" /\ variant = "ssh") =>
    LET data == ev.arg.data
        echoes == SelectSeq(ev.out, LAMBDA call : call.call = "write" /\ call.data.t = "<char>")
        typed == SelectSeq(data, IsPrintable)
        erases == SelectSeq(ev.out, LAMBDA call : call.call = "write" /\ call.data.t = "BS BS")
    IN  /\ Len(echoes) = Len(typed)
        /\ \A i \in 1..Len(typed) : echoes[i].data.s = <<typed[i]>>
        /\ Len(erases) <= Len(SelectSeq(data, LAMBDA ch : CharCode(ch) \in {8, 127}))

\* What holds of a backspace and of a printable character, in every state of
\* every open shell
BackspaceAndPrintable(c, k) ==
  LET buffer == admin[c].buffer[k]
      s == <<c, admin[c].stream>>
  IN  /\ \A i \in 1..Len(buffer) : IsPrintable(buffer[i])
      /\ \A ch \in {"BS", "DEL"} :
           LET r == KeyPass(c, k, ch)
           IN  IF buffer # <<>>
               THEN /\ r.a.buffer[k] = SubSeq(buffer, 1, Len(buffer) - 1)
                    /\ r.out = <<W(s, T("BS BS"))>>
               ELSE r.a.buffer[k] = buffer /\ r.out = <<>>
      /\ \A ch \in DOMAIN CodeTable :
           IsPrintable(ch) =>
             LET r == KeyPass(c, k, ch)
             IN  /\ r.a.buffer[k] = Append(buffer, ch)
                 /\ r.out = <<W(s, [T("<char>") EXCEPT !.s = <<ch>>])>>

\* C31 as stated: in the SSH console the line buffer holds only printable
\* characters (32 to 126); a backspace (127 or 8) removes exactly the last
\* buffered character and writes the erase sequence when the buffer is not
\* empty and does nothing when it is empty, each printable character is
\* appended and echoed once, and every other byte leaves the buffer unchanged.
C31_BufferEditing ==
  /\ EchoesOfEvent
  /\ \A c \in AdminIds : \A k \in ShellIds :
       (variant = "ssh" /\ socks[<<c, k>>].st = "open") =>
         /\ BackspaceAndPrintable(c, k)
         /\ \A ch \in DOMAIN CodeTable :
              (~IsPrintable(ch) /\ CharCode(ch) \notin {8, 127}) =>
                KeyPass(c, k, ch).a.buffer[k] = admin[c].buffer[k]

\* C31, amended: as above for the buffer's content, the backspace and the
\* printable characters; a carriage return or a newline that ends a line
\* empties the buffer, the interrupt byte empties it when a parameter
\* collection is in progress and leaves it unchanged otherwise, and every other
\* byte leaves the buffer unchanged and writes nothing.
C31_BufferEditingAmended ==
  /\ EchoesOfEvent
  /\ \A c \in AdminIds : \A k \in ShellIds :
       (variant = "ssh" /\ socks[<<c, k>>].st = "open") =>
         /\ BackspaceAndPrintable(c, k)
         /\ \A ch \in DOMAIN CodeTable :
              (~IsPrintable(ch) /\ CharCode(ch) \notin {8, 127}) =>
                LET r == KeyPass(c, k, ch)
                IN  IF ch \in {"\r", "\n"} \/ (CharCode(ch) = 3 /\ admin[c].attackMode)
                    THEN r.a.buffer[k] = <<>>
                    ELSE r.a.buffer[k] = admin[c].buffer[k] /\ r.out = <<>>

\* a chunk was handled that held a backspace on the empty buffer, a backspace
\* after a typed character, printable characters and an escape byte
C31_Witness ==
  /\ ev.op = "adminData" /\ variant = "ssh"
  /\ ev.arg.data = <<"DEL", "h", "e", "^C", "l", "x", "BS", "ESC", "p", "\r">>
  /\ Len(SelectSeq(ev.out, LAMBDA call : call.call = "write" /\ call.data.t = "BS BS")) = 1
  /\ Len(ev.steps) = 1 /\ ev.steps[1].branch = "help"


\* The line that the keystrokes typed give when they are typed on an empty
\* buffer: a printable character is appended, a backspace removes the last one
RECURSIVE TypedLine(_)
TypedLine(typed) ==
  IF typed = <<>> THEN <<>>
  ELSE LET before == TypedLine(SubSeq(typed, 1, Len(typed) - 1))
           ch == typed[Len(typed)]
       IN  IF IsPrintable(ch) THEN Append(before, ch)
           ELSE IF CharCode(ch) \in {8, 127} /\ before # <<>>
           THEN SubSeq(before, 1, Len(before) - 1)
           ELSE before

\* The positions of the first line end of a chunk and of the interrupt bytes
\* before it
LineEndsAt(data) == {i \in 1..Len(data) : data[i] \in {"\r", "\n"}}
InterruptsBefore(data, end) == {i \in 1..(end - 1) : CharCode(data[i]) = 3}

\* C32: in the SSH console the interrupt byte (3) always clears the line
\* buffer and leaves the session Idle, a parameter collection being in progress
\* or not: whatever the state of a shell, the byte leaves an empty buffer, no
\* collection mode, no current field and no collected value, and the first line
\* completed after an interrupt byte of a chunk is made of the keystrokes typed
\* after that byte only.
C32_InterruptClearsBuffer ==
  /\ \A c \in AdminIds : \A k \in ShellIds :
       (variant = "ssh" /\ socks[<<c, k>>].st = "open") =>
         LET r == KeyPass(c, k, "^C")
         IN  /\ r.a.buffer[k] = <<>>
             /\ ~r.a.attackMode
             /\ r.a.attackParams = <<>>
             /\ r.a.currentParam = ""
  /\ (ev.op = "adminData" /\ variant = "ssh") =>
       LET data == ev.arg.data
           ends == LineEndsAt(data)
           lines == SelectSeq(ev.steps, LAMBDA st : st.branch # "interrupt")
       IN  \A end \in ends :
             ((\A e \in ends : end <= e) /\ InterruptsBefore(data, end) # {}) =>
               LET last == CHOOSE i \in InterruptsBefore(data, end) :
                             \A j \in InterruptsBefore(data, end) : j <= i
               IN  /\ lines # <<>>
                   /\ lines[1].command = Trim(TypedLine(SubSeq(data, last + 1, end - 1)))

=============================================================================
